---- MODULE Spec2Model ----
(***************************************************************************)
(* Model of the scratch build pipeline: the orchestrator                   *)
(* (src/build/orchestrator.ts), the BuildContext path/template resolver    *)
(* and the Entry artifact model (src/build/context.ts).                    *)
(*                                                                         *)
(* Paths are sequences of tokens: the separator "/", the dot "." and       *)
(* words (one or more characters that are neither).  "docs/index.md" is    *)
(* <<"docs", "/", "index", ".", "md">>.                                    *)
(***************************************************************************)
EXTENDS Integers, Sequences, FiniteSets, TLC

\* ------------------------------------------------------------------------
\* Bounds of the model
\* ------------------------------------------------------------------------
MaxDocs == 2
MaxCallers == 2
MaxCalls == 3
MaxEdits == 1
MaxFiles == 1
MaxDepth == 2
MaxRuns == 2
MaxCssTokens == 3

\* ------------------------------------------------------------------------
\* Path primitives (node:path on POSIX)
\* ------------------------------------------------------------------------
Sep == "/"
Dot == "."

LastIndexOf(p, t) ==
  IF \E k \in 1..Len(p) : p[k] = t
    THEN CHOOSE k \in 1..Len(p) : p[k] = t /\ \A j \in (k+1)..Len(p) : p[j] # t
    ELSE 0

RECURSIVE Split(_, _, _)
Split(p, cur, acc) ==
  IF p = <<>> THEN Append(acc, cur)
  ELSE IF Head(p) = Sep THEN Split(Tail(p), <<>>, Append(acc, cur))
  ELSE Split(Tail(p), Append(cur, Head(p)), acc)

Segments(p) == Split(p, <<>>, <<>>)

RECURSIVE NormSegs(_, _)
NormSegs(segs, acc) ==
  IF segs = <<>> THEN acc
  ELSE LET h == Head(segs) IN
    IF h = <<>> \/ h = <<Dot>> THEN NormSegs(Tail(segs), acc)
    ELSE IF h = <<Dot, Dot>>
      THEN NormSegs(Tail(segs), IF acc = <<>> THEN acc ELSE SubSeq(acc, 1, Len(acc) - 1))
    ELSE NormSegs(Tail(segs), Append(acc, h))

RECURSIVE JoinSegs(_)
JoinSegs(segs) ==
  IF segs = <<>> THEN <<>>
  ELSE IF Len(segs) = 1 THEN Head(segs)
  ELSE Head(segs) \o <<Sep>> \o JoinSegs(Tail(segs))

\* path.resolve(base, rel) for an absolute base
resolve(base, rel) ==
  LET segs == IF rel # <<>> /\ Head(rel) = Sep
                THEN NormSegs(Segments(rel), <<>>)
                ELSE NormSegs(Segments(base) \o Segments(rel), <<>>)
  IN <<Sep>> \o JoinSegs(segs)

RECURSIVE CommonPrefixLen(_, _)
CommonPrefixLen(a, b) ==
  IF a = <<>> \/ b = <<>> THEN 0
  ELSE IF Head(a) = Head(b) THEN 1 + CommonPrefixLen(Tail(a), Tail(b))
  ELSE 0

\* path.relative(from, to) for absolute paths
relative(from, to) ==
  LET f == NormSegs(Segments(from), <<>>)
      t == NormSegs(Segments(to), <<>>)
      c == CommonPrefixLen(f, t)
      ups == [k \in 1..(Len(f) - c) |-> <<Dot, Dot>>]
  IN JoinSegs(ups \o SubSeq(t, c + 1, Len(t)))

\* slip: the whole name is compared instead of its last segment
basename_whole(p) == p

\* path.basename(p): the last path segment
basename(p) ==
  LET segs == NormSegs(Segments(p), <<>>)
  IN IF segs = <<>> THEN <<>> ELSE segs[Len(segs)]

\* String.replace(/\.[^/.]+$/, ''): drop a final ".<word>" of the last segment
StripExt(p) ==
  LET d == LastIndexOf(p, Dot) IN
    IF d > 0 /\ d < Len(p) /\ \A j \in (d+1)..Len(p) : p[j] # Sep
      THEN SubSeq(p, 1, d - 1)
      ELSE p

\* ------------------------------------------------------------------------
\* Directories of a BuildContext (constructor and getters)
\* ------------------------------------------------------------------------
rootDir == <<Sep, "proj">>
tempDir == resolve(rootDir, <<Dot, "scratch-build-cache">>)
buildDir == resolve(rootDir, <<"dist">>)
srcDir == resolve(rootDir, <<"src">>)
pagesDir == resolve(rootDir, <<"pages">>)
clientSrcDir == resolve(tempDir, <<"client-src">>)
clientCompiledDir == resolve(tempDir, <<"client-compiled">>)
serverSrcDir == resolve(tempDir, <<"server-src">>)
serverCompiledDir == resolve(tempDir, <<"server-compiled">>)
embeddedTemplatesDir == resolve(tempDir, <<"embedded-templates">>)

\* ------------------------------------------------------------------------
\* Entry (src/build/context.ts)
\* ------------------------------------------------------------------------
\* new Entry(sourceFile, baseDir)
Entry(sourceFile, baseDir) ==
  LET abs == resolve(rootDir, sourceFile)
      base == resolve(rootDir, baseDir)
      rel == relative(base, abs)
  IN [name |-> StripExt(rel), absPath |-> abs, relPath |-> rel, baseDir |-> base]

\* Entry.getArtifactPath(extension, baseDir)
getArtifactPath(name, extension, baseDir) ==
  IF basename(name) = <<"index">>
    THEN resolve(baseDir, name \o extension)
    ELSE resolve(baseDir, name \o <<Sep, "index">> \o extension)


\* ------------------------------------------------------------------------
\* Values of optional fields: undefined, null, or a value
\* ------------------------------------------------------------------------
Unset == [tag |-> "unset"]
Null == [tag |-> "null"]
Val(x) == [tag |-> "val", v |-> x]

NoError == [msg |-> "unset", origin |-> "unset"]

Put(m, k, v) == [x \in (DOMAIN m) \cup {k} |-> IF x = k THEN v ELSE m[x]]
EmptyMap == [x \in {} |-> x]

IsUnder(dir, p) ==
  Len(p) > Len(dir) + 1 /\ SubSeq(p, 1, Len(dir) + 1) = dir \o <<Sep>>

\* ------------------------------------------------------------------------
\* State
\* ------------------------------------------------------------------------
VARIABLES
  \* BuildPipelineState (src/build/types.ts) and the position of runBuildPipeline
  i, pc, phase, options, outputs, timings, error, failedStep,
  \* per-step execute() promises, the results held by Promise.all, start history
  exec, results, startLog,
  \* the filesystem: the set of absolute paths of existing files
  fs,
  \* BuildContext private fields
  entries, componentMap, componentConflicts, materializedPaths,
  \* allocator of object identities (map instances)
  nextInst,
  \* in-flight calls on the BuildContext, one per caller, and the last return
  calls, ret,
  \* history since the last clearCaches(): writes and completed calls per template id
  hist,
  \* one Entry computation: its input and its result
  eIn, eOut,
  \* materializeProjectTemplates: the target directory, the call's position,
  \* its options, its list `created`, and the log of its writes
  scaffold,
  \* the Error runBuildPipeline rejects with (its message), unset while it has not thrown
  thrown,
  \* execute() of the render step: the per-document closures and its local Map
  render,
  \* one call of buildJsOutputMap: its arguments, loop position and the two maps
  bundle,
  \* execute() of the style-compile step: the stylesheet read and the one written
  css

pipeVars == <<i, pc, phase, options, outputs, timings, error, failedStep, exec, results, startLog>>
ctxVars == <<entries, componentMap, componentConflicts, materializedPaths, nextInst>>
callVars == <<calls, ret, hist>>
entryVars == <<eIn, eOut>>
subVars == <<render, bundle, css>>
stepVars == <<thrown, subVars>>
vars == <<pipeVars, fs, ctxVars, callVars, entryVars, scaffold, stepVars>>

\* ------------------------------------------------------------------------
\* Embedded templates (src/template.generated, consumed through src/template.ts)
\* ------------------------------------------------------------------------
TplTailwind == <<"src", Sep, "tailwind", Dot, "css">>
TplClient == <<"_build", Sep, "entry-client", Dot, "tsx">>
TplServer == <<"_build", Sep, "entry-server", Dot, "jsx">>
TplPageWrapper == <<"src", Sep, "PageWrapper", Dot, "jsx">>
TplCodeBlock == <<"src", Sep, "markdown", Sep, "CodeBlock", Dot, "tsx">>
TplHeading == <<"src", Sep, "markdown", Sep, "Heading", Dot, "tsx">>
TplMarkdownDir == <<"src", Sep, "markdown", Sep>>

\* the scaffold files of a project
TplGitignore == <<Dot, "gitignore">>
TplAgents == <<"AGENTS", Dot, "md">>
TplPagesIndex == <<"pages", Sep, "index", Dot, "mdx">>
TplFavicon == <<"public", Sep, "favicon", Dot, "svg">>
TplLogo == <<"public", Sep, "scratch-logo", Dot, "svg">>
TplTemplatePageWrapper == <<"src", Sep, "template", Sep, "PageWrapper", Dot, "jsx">>
TplTemplatePageWrapperMinimal ==
  <<"src", Sep, "template", Sep, "PageWrapper", Dot, "minimal", Dot, "jsx">>
TplHeader == <<"src", Sep, "template", Sep, "Header", Dot, "jsx">>
TplFooter == <<"src", Sep, "template", Sep, "Footer", Dot, "jsx">>
TplScratchBadge == <<"src", Sep, "template", Sep, "ScratchBadge", Dot, "jsx">>
TplCopyright == <<"src", Sep, "template", Sep, "Copyright", Dot, "jsx">>

\* Object.entries(templates): the embedded files in the order of the record
TemplateSeq ==
  << TplGitignore, TplAgents, TplClient, TplServer, TplPagesIndex, TplFavicon, TplLogo,
     TplPageWrapper, TplCodeBlock, TplHeading, TplTailwind, TplCopyright, TplFooter,
     TplHeader, TplTemplatePageWrapper, TplTemplatePageWrapperMinimal, TplScratchBadge >>

templates == { TemplateSeq[k] : k \in 1..Len(TemplateSeq) }

\* hasTemplate(templatePath)
hasTemplate(t) == t \in templates

\* ------------------------------------------------------------------------
\* Documents of the project
\* ------------------------------------------------------------------------
DocUniverse ==
  { <<"index", Dot, "mdx">>,
    <<"about", Dot, "md">>,
    <<"about", Dot, "mdx">>,
    <<"docs", Sep, "index", Dot, "md">> }

DocSets == { D \in SUBSET DocUniverse : Cardinality(D) <= MaxDocs }

\* the documents of a site that is built: also a document and the index document
\* of the directory of the same name
SiteDocUniverse == DocUniverse \cup { <<"about", Sep, "index", Dot, "md">> }

SiteDocSets == { D \in SUBSET SiteDocUniverse : Cardinality(D) <= MaxDocs }

PagesFiles(D) == { resolve(pagesDir, d) : d \in D }

\* globSync('**/*.{mdx,md}', { cwd: pagesDir, absolute: true })
GlobDocs(files) ==
  { p \in files : /\ IsUnder(pagesDir, p)
                  /\ Len(p) >= 2
                  /\ p[Len(p) - 1] = Dot
                  /\ p[Len(p)] \in {"md", "mdx"} }

Orders(S) == { o \in [1..Cardinality(S) -> S] : \A a, b \in 1..Cardinality(S) : o[a] = o[b] => a = b }

\* the for-loop of getEntries(): this.entries[entry.name] = entry
RECURSIVE InsertEntries(_, _)
InsertEntries(order, m) ==
  IF order = <<>> THEN m
  ELSE LET e == Entry(Head(order), pagesDir)
       IN InsertEntries(Tail(order), Put(m, e.name, e))

\* the maps getEntries() can build, one per enumeration order of the glob
EntryMaps(files) == { InsertEntries(o, EmptyMap) : o \in Orders(GlobDocs(files)) }


\* ------------------------------------------------------------------------
\* BuildContext operations run to completion (no other caller interleaved)
\* ------------------------------------------------------------------------
RemoveDir(files, dir) == { p \in files : ~IsUnder(dir, p) }

\* clearCaches()
ClearedPaths == EmptyMap

\* materializeEmbeddedFile(templatePath): the target path
MaterializeTarget(t) == resolve(embeddedTemplatesDir, t)

\* materializeEmbeddedFile / materializeEmbeddedDir as a step on <<files, cache>>
MaterializeFileOn(st, t) ==
  IF t \in DOMAIN st.mp THEN st
  ELSE [files |-> st.files \cup {MaterializeTarget(t)},
        mp |-> Put(st.mp, t, MaterializeTarget(t))]

MaterializeDirOn(st, key, members) ==
  IF key \in DOMAIN st.mp THEN st
  ELSE [files |-> st.files \cup { MaterializeTarget(m) : m \in members },
        mp |-> Put(st.mp, key, MaterializeTarget(key))]

\* the first candidate of the list that exists under the project root, else 0
FirstExisting(files, candidates) ==
  IF \E k \in 1..Len(candidates) : resolve(rootDir, candidates[k]) \in files
    THEN CHOOSE k \in 1..Len(candidates) :
           /\ resolve(rootDir, candidates[k]) \in files
           /\ \A j \in 1..(k-1) : resolve(rootDir, candidates[j]) \notin files
    ELSE 0

\* resolvePathWithFallback(candidates, fallbackTemplatePath) as a step on <<files, cache>>
ResolveOn(st, candidates, fallback) ==
  IF FirstExisting(st.files, candidates) # 0 THEN st ELSE MaterializeFileOn(st, fallback)

\* candidate lists and fallbacks of the four resolvers
Resolvers == {"tailwindCssSrcPath", "clientTsxSrcPath", "serverJsxSrcPath", "pageWrapperPath"}

Candidates(r) ==
  CASE r = "tailwindCssSrcPath" ->
         << <<"src", Sep, "tailwind", Dot, "css">>,
            <<"src", Sep, "index", Dot, "css">>,
            <<"src", Sep, "globals", Dot, "css">> >>
    [] r = "clientTsxSrcPath" -> << <<"_build", Sep, "entry-client", Dot, "tsx">> >>
    [] r = "serverJsxSrcPath" -> << <<"_build", Sep, "entry-server", Dot, "jsx">> >>
    [] r = "pageWrapperPath" ->
         << <<"src", Sep, "PageWrapper", Dot, "jsx">>,
            <<"src", Sep, "PageWrapper", Dot, "tsx">> >>

Fallback(r) ==
  CASE r = "tailwindCssSrcPath" -> TplTailwind
    [] r = "clientTsxSrcPath" -> TplClient
    [] r = "serverJsxSrcPath" -> TplServer
    [] r = "pageWrapperPath" -> TplPageWrapper

\* ------------------------------------------------------------------------
\* The pipeline: BUILD_STEPS and the steps' contracts
\* ------------------------------------------------------------------------
BUILD_STEPS ==
  << [name |-> "01-ensure-dependencies", phase |-> "ensure_dependencies"],
     [name |-> "02-reset-directories",   phase |-> "reset_directories"],
     [name |-> "03-create-tsx-entries",  phase |-> "create_tsx_entries"],
     [name |-> "04-tailwind-css",        phase |-> "tailwind_css"],
     [name |-> "05-server-build",        phase |-> "server_build"],
     [name |-> "05b-render-server",      phase |-> "render_server"],
     [name |-> "06-client-build",        phase |-> "client_build"],
     [name |-> "07-generate-html",       phase |-> "generate_html"],
     [name |-> "08-inject-frontmatter",  phase |-> "inject_frontmatter"],
     [name |-> "09-copy-pages-static",   phase |-> "copy_pages_static"],
     [name |-> "10-copy-public-static",  phase |-> "copy_public_static"],
     [name |-> "11-copy-to-dist",        phase |-> "copy_to_dist"] >>

NSteps == Len(BUILD_STEPS)
StepIds == 1..NSteps
StepName(k) == BUILD_STEPS[k].name
StepIndex(n) == CHOOSE k \in StepIds : BUILD_STEPS[k].name = n

SsgValues == {"unset", "true", "false"}
StaticValues == {"unset", "public", "assets", "all"}
ErrMsgs == {"EACCES", "tool failed"}
NoPagesMsg == "No pages found. Create MDX files in the pages/ directory."

\* slip: the predicates of the server steps do not look at options.ssg
shouldRun_noSsgCheck(k) ==
  CASE StepName(k) = "05-server-build" -> outputs.serverEntryPts # Null
    [] StepName(k) = "05b-render-server" -> outputs.serverBuildResult # Null
    [] StepName(k) = "09-copy-pages-static" -> options.static # "public"
    [] OTHER -> TRUE

\* step.shouldRun(ctx, state)
shouldRun(k) ==
  CASE StepName(k) = "05-server-build" ->
         options.ssg = "true" /\ outputs.serverEntryPts # Null
    [] StepName(k) = "05b-render-server" ->
         options.ssg = "true" /\ outputs.serverBuildResult # Null
    [] StepName(k) = "09-copy-pages-static" ->
         options.static # "public"
    [] OTHER -> TRUE

\* slip: the entry point is placed at <name><extension>, without the index folding
createEntries_flat(ents, extension, outDir) ==
  [n \in DOMAIN ents |-> resolve(outDir, ents[n].name \o extension)]

\* createEntries(): one entry point per Entry, at its artifact path
createEntries(ents, extension, outDir) ==
  [n \in DOMAIN ents |-> getArtifactPath(ents[n].name, extension, outDir)]

FnRange(f) == { f[x] : x \in DOMAIN f }

HashSuffix == "-h4sh"
CssHashed == resolve(clientCompiledDir, <<"tailwind", HashSuffix, Dot, "css">>)

\* Bun.build output of a client entry point: <entry base path>-<hash>.js
ClientOutput(tsxPath) ==
  resolve(clientCompiledDir,
          StripExt(relative(clientSrcDir, tsxPath)) \o <<HashSuffix, Dot, "js">>)

\* Bun.build output of a server entry point: outDir plus its path below root, as .js
ServerOutput(jsxPath) ==
  resolve(serverCompiledDir, StripExt(relative(serverSrcDir, jsxPath)) \o <<Dot, "js">>)

\* the module the render step imports for an entry
renderModulePath(name) == getArtifactPath(name, <<Dot, "js">>, serverCompiledDir)

\* the fields of state.outputs that a step reads in shouldRun() or in execute()
ReadsOutputs(k) ==
  CASE StepName(k) = "05-server-build" -> {"serverEntryPts"}
    [] StepName(k) = "05b-render-server" -> {"serverBuildResult", "entries"}
    [] StepName(k) = "06-client-build" -> {"clientEntryPts"}
    [] OTHER -> {}

\* the data a step's execute() resolves with (undefined for the void steps)
StepData(k) ==
  CASE StepName(k) = "03-create-tsx-entries" ->
         Val([entries |-> entries.v.map,
              clientEntryPts |-> Val(createEntries(entries.v.map, <<Dot, "tsx">>, clientSrcDir)),
              serverEntryPts |->
                IF options.ssg = "true"
                  THEN Val(createEntries(entries.v.map, <<Dot, "jsx">>, serverSrcDir))
                  ELSE Null])
    [] StepName(k) = "04-tailwind-css" ->
         Val([cssFilename |-> Val(<<"tailwind", HashSuffix, Dot, "css">>)])
    [] StepName(k) = "05-server-build" ->
         Val([buildResult |-> Val("server-build-success")])
    [] StepName(k) = "05b-render-server" ->
         Val([renderedContent |->
                Val([n \in DOMAIN outputs.entries.v |-> <<"html-of">> \o n])])
    [] StepName(k) = "06-client-build" ->
         Val([buildResult |-> Val("client-build-success"),
              jsOutputMap |->
                Val([n \in DOMAIN outputs.clientEntryPts.v |->
                       ClientOutput(outputs.clientEntryPts.v[n])])])
    [] OTHER -> Unset

\* slip: the client bundle's result is stored in the server bundle's field
storeStepOutput_sharedBuildResult(k, data, out) ==
  IF data = Unset THEN out
  ELSE CASE StepName(k) = "03-create-tsx-entries" ->
              [out EXCEPT !.entries = Val(data.v.entries),
                          !.clientEntryPts = data.v.clientEntryPts,
                          !.serverEntryPts = data.v.serverEntryPts]
         [] StepName(k) = "04-tailwind-css" ->
              [out EXCEPT !.cssFilename = data.v.cssFilename]
         [] StepName(k) = "05-server-build" ->
              [out EXCEPT !.serverBuildResult = data.v.buildResult]
         [] StepName(k) = "05b-render-server" ->
              [out EXCEPT !.renderedContent = data.v.renderedContent]
         [] StepName(k) = "06-client-build" ->
              [out EXCEPT !.serverBuildResult = data.v.buildResult,
                          !.jsOutputMap = data.v.jsOutputMap]
         [] OTHER -> out

\* storeStepOutput(step, data, state)
storeStepOutput(k, data, out) ==
  IF data = Unset THEN out
  ELSE CASE StepName(k) = "03-create-tsx-entries" ->
              [out EXCEPT !.entries = Val(data.v.entries),
                          !.clientEntryPts = data.v.clientEntryPts,
                          !.serverEntryPts = data.v.serverEntryPts]
         [] StepName(k) = "04-tailwind-css" ->
              [out EXCEPT !.cssFilename = data.v.cssFilename]
         [] StepName(k) = "05-server-build" ->
              [out EXCEPT !.serverBuildResult = data.v.buildResult]
         [] StepName(k) = "05b-render-server" ->
              [out EXCEPT !.renderedContent = data.v.renderedContent]
         [] StepName(k) = "06-client-build" ->
              [out EXCEPT !.clientBuildResult = data.v.buildResult,
                          !.jsOutputMap = data.v.jsOutputMap]
         [] OTHER -> out


\* ------------------------------------------------------------------------
\* Effects of the steps' execute() on the filesystem and the BuildContext
\* ------------------------------------------------------------------------
DirExists(files, dir) == \E p \in files : IsUnder(dir, p)

MarkdownMembers == { t \in templates : Len(t) > Len(TplMarkdownDir)
                                        /\ SubSeq(t, 1, Len(TplMarkdownDir)) = TplMarkdownDir }

\* markdownComponentsDir() as a step on <<files, cache>>
MarkdownDirOn(st) ==
  IF DirExists(st.files, resolve(srcDir, <<"markdown">>)) THEN st
  ELSE MaterializeDirOn(st, TplMarkdownDir, MarkdownMembers)

\* the part of execute() that runs synchronously when the step is started
\* (03: getEntries() has no suspension point before it fills the cache)
LaunchEffect(k) ==
  IF StepName(k) = "03-create-tsx-entries" /\ entries = Unset
    THEN /\ \E m \in EntryMaps(fs) : entries' = Val([inst |-> nextInst, map |-> m])
         /\ nextInst' = nextInst + 1
         /\ UNCHANGED <<fs, componentMap, componentConflicts, materializedPaths>>
    ELSE UNCHANGED <<fs, ctxVars>>

BuildFileExts == {"md", "mdx", "tsx", "jsx", "ts", "js", "mjs", "cjs"}

\* the files a successful execute() of step k leaves behind
StepFiles(k, st) ==
  CASE StepName(k) = "03-create-tsx-entries" ->
         LET s1 == ResolveOn(st, Candidates("clientTsxSrcPath"), TplClient)
             s2 == IF options.ssg = "true"
                     THEN ResolveOn(s1, Candidates("serverJsxSrcPath"), TplServer)
                     ELSE s1
             s3 == MarkdownDirOn(s2)
             data == StepData(k).v
         IN [s3 EXCEPT !.files = @ \cup FnRange(data.clientEntryPts.v)
                                   \cup (IF data.serverEntryPts = Null THEN {}
                                         ELSE FnRange(data.serverEntryPts.v))]
    [] StepName(k) = "04-tailwind-css" ->
         LET s1 == ResolveOn(st, Candidates("tailwindCssSrcPath"), TplTailwind)
         IN [s1 EXCEPT !.files = @ \cup {resolve(tempDir, <<"tailwind-input", Dot, "css">>),
                                         CssHashed}]
    [] StepName(k) = "05-server-build" ->
         [st EXCEPT !.files = @ \cup { ServerOutput(outputs.serverEntryPts.v[n]) :
                                          n \in DOMAIN outputs.serverEntryPts.v }]
    [] StepName(k) = "06-client-build" ->
         [st EXCEPT !.files = @ \cup { ClientOutput(outputs.clientEntryPts.v[n]) :
                                          n \in DOMAIN outputs.clientEntryPts.v }]
    [] StepName(k) = "09-copy-pages-static" ->
         [st EXCEPT !.files = @ \cup
            { resolve(buildDir, relative(pagesDir, p)) :
                p \in { q \in st.files : /\ IsUnder(pagesDir, q)
                                          /\ \/ options.static = "all"
                                             \/ ~(/\ Len(q) >= 2
                                                  /\ q[Len(q) - 1] = Dot
                                                  /\ q[Len(q)] \in BuildFileExts) } }]
    [] StepName(k) = "10-copy-public-static" ->
         [st EXCEPT !.files = @ \cup
            { resolve(buildDir, relative(resolve(rootDir, <<"public">>), p)) :
                p \in { q \in st.files : IsUnder(resolve(rootDir, <<"public">>), q) } }]
    [] StepName(k) = "11-copy-to-dist" ->
         [st EXCEPT !.files = @ \cup
            { resolve(buildDir, relative(clientCompiledDir, p)) :
                p \in { q \in st.files : IsUnder(clientCompiledDir, q) } }]
    [] OTHER -> st

\* slip: clearCaches() forgets to drop the entry map
clearCaches_keepsEntries ==
  /\ materializedPaths' = ClearedPaths
  /\ entries' = entries
  /\ componentMap' = Unset
  /\ componentConflicts' = Unset

\* clearCaches()
clearCaches ==
  /\ materializedPaths' = ClearedPaths
  /\ entries' = Unset
  /\ componentMap' = Unset
  /\ componentConflicts' = Unset

\* what a successful execute() of step k does to the filesystem and the context
ResolveEffect(k) ==
  IF StepName(k) = "02-reset-directories"
    THEN \* ctx.reset(): resetBuildDir(), resetTempDir(), clearCaches()
         /\ fs' = RemoveDir(RemoveDir(fs, buildDir), tempDir)
         /\ clearCaches
         /\ UNCHANGED nextInst
    ELSE LET st == StepFiles(k, [files |-> fs, mp |-> materializedPaths])
         IN /\ fs' = st.files
            /\ materializedPaths' = st.mp
            /\ UNCHANGED <<entries, componentMap, componentConflicts, nextInst>>

\* slip: the entry step does not look at the number of entries
CanResolve_anyEntries(k) == TRUE

\* execute() of step k can resolve (03 throws when no document was discovered)
CanResolve(k) ==
  StepName(k) = "03-create-tsx-entries" => DOMAIN entries.v.map # {}

\* the errors execute() of step k can throw
StepErrors(k) ==
  IF StepName(k) = "03-create-tsx-entries" /\ DOMAIN entries.v.map = {}
    THEN { [msg |-> NoPagesMsg, origin |-> StepName(k)] }
    ELSE { [msg |-> m, origin |-> StepName(k)] : m \in ErrMsgs }


\* ------------------------------------------------------------------------
\* Initial states
\* ------------------------------------------------------------------------
\* a template id that is not among the embedded templates
TplMissing == <<"src", Sep, "Missing", Dot, "jsx">>
TemplateIds == templates \cup {TplMissing}

\* nothing has been materialized or discovered since the last clearCaches()
NoHistory(ncalls, nedits) ==
  [tpl |-> [t \in TemplateIds |-> [writes |-> 0, done |-> 0, paths |-> {}, overlap |-> FALSE]],
   entriesInsts |-> {}, componentInsts |-> {}, componentOverlap |-> FALSE,
   calls |-> ncalls, edits |-> nedits]

NoCall == [op |-> "idle"]
NoRet == [op |-> "none"]
Callers == 1..MaxCallers
NoEntryIn == [file |-> <<>>, ext |-> <<>>, base |-> <<>>]

\* outputs: {}
EmptyOutputs ==
  [entries |-> Unset, clientEntryPts |-> Unset, serverEntryPts |-> Unset,
   cssFilename |-> Unset, serverBuildResult |-> Unset,
   clientBuildResult |-> Unset, jsOutputMap |-> Unset,
   renderedContent |-> Unset]

\* createInitialState(options)
InitPipeline ==
  /\ i = 1
  /\ pc = "loop"
  /\ phase = "not_started"
  /\ options \in [ssg : SsgValues, static : StaticValues]
  /\ outputs = EmptyOutputs
  /\ timings = {}
  /\ error = NoError
  /\ failedStep = "unset"
  /\ exec = [k \in StepIds |-> "idle"]
  /\ results = [k \in StepIds |-> Unset]
  /\ startLog = <<>>

\* new BuildContext(opts)
InitContext ==
  /\ entries = Unset
  /\ componentMap = Unset
  /\ componentConflicts = Unset
  /\ materializedPaths = EmptyMap
  /\ nextInst = 1

InitCalls ==
  /\ calls = [c \in Callers |-> NoCall]
  /\ ret = NoRet
  /\ hist = NoHistory(0, 0)

InitEntryIdle ==
  /\ eIn = NoEntryIn
  /\ eOut = Unset

\* MaterializeOptions after the defaults of the destructuring
DefaultOptions == [includeSrc |-> TRUE, minimal |-> FALSE, overwrite |-> FALSE]

NoPrevious == [valid |-> FALSE, opts |-> DefaultOptions, created |-> <<>>, writes |-> <<>>]

\* no call of materializeProjectTemplates yet, nothing in the target directory
NoScaffold ==
  [pc |-> "idle", opts |-> DefaultOptions, order |-> <<>>, k |-> 0, overrides |-> {},
   created |-> <<>>, writes |-> <<>>, files |-> EmptyMap, dirs |-> {},
   before |-> EmptyMap, runs |-> 0, prev |-> NoPrevious]

InitScaffoldIdle == scaffold = NoScaffold

\* the render step is not executing
NoRender == [all |-> "idle", modules |-> EmptyMap, stage |-> EmptyMap, content |-> EmptyMap]

\* buildJsOutputMap has not been called
NoBundle ==
  [pc |-> "idle", entryPts |-> <<>>, outputs |-> <<>>, k |-> 0,
   basePathToEntry |-> EmptyMap, jsOutputMap |-> EmptyMap]

\* the style-compile step has not read its stylesheet
NoCss == [pc |-> "idle", source |-> <<>>, cssContent |-> <<>>, written |-> Unset]

\* runBuildPipeline has not thrown
InitStepsIdle ==
  /\ thrown = Unset
  /\ render = NoRender
  /\ bundle = NoBundle
  /\ css = NoCss

PublicFile == resolve(rootDir, <<"public", Sep, "favicon", Dot, "svg">>)
StaleOutput == resolve(buildDir, <<"old", Sep, "index", Dot, "html">>)

Init ==
  /\ InitPipeline
  /\ InitContext
  /\ InitCalls
  /\ InitScaffoldIdle
  /\ InitStepsIdle
  /\ InitEntryIdle
  /\ \E D \in SiteDocSets : fs = PagesFiles(D) \cup {PublicFile, StaleOutput}

\* ------------------------------------------------------------------------
\* runBuildPipeline (src/build/orchestrator.ts)
\* ------------------------------------------------------------------------
\* slip: the pair is not recognised by name
IsParallelPair_anyStep(k) ==
  /\ k + 1 <= NSteps
  /\ shouldRun(k + 1)

IsParallelPair(k) ==
  /\ StepName(k) = "04-tailwind-css"
  /\ k + 1 <= NSteps
  /\ shouldRun(k + 1)

\* formatBuildError(state.error): the message of the Error that is thrown to the
\* caller. The function receives the caught Error and nothing else; the formatted
\* text keeps the whole underlying message.
formatBuildError(e) == <<"Build failed: ", e.msg>>

\* state.failedStep = step.name in both catch blocks: step is BUILD_STEPS[i]
failedStepOf(k, thrower) == StepName(k)

\* slip: the phase is assigned before shouldRun() is consulted
SkipStep_setsPhase ==
  /\ pc = "loop" /\ i <= NSteps
  /\ ~shouldRun(i)
  /\ phase' = BUILD_STEPS[i].phase
  /\ i' = i + 1
  /\ UNCHANGED <<pc, options, outputs, timings, error, failedStep, exec, results,
                 startLog, fs, ctxVars, callVars, entryVars, scaffold, stepVars>>

\* slip: a skipped step gets a timing entry
SkipStep_recordsTiming ==
  /\ pc = "loop" /\ i <= NSteps
  /\ ~shouldRun(i)
  /\ timings' = timings \cup {StepName(i)}
  /\ i' = i + 1
  /\ UNCHANGED <<pc, phase, options, outputs, error, failedStep, exec, results,
                 startLog, fs, ctxVars, callVars, entryVars, scaffold, stepVars>>

\* for-loop head: shouldRun() is false, continue
SkipStep ==
  /\ pc = "loop" /\ i <= NSteps
  /\ ~shouldRun(i)
  /\ i' = i + 1
  /\ UNCHANGED <<pc, phase, options, outputs, timings, error, failedStep, exec, results,
                 startLog, fs, ctxVars, callVars, entryVars, scaffold, stepVars>>

\* Promise.all([executeStep(step), executeStep(serverStep)]) is started
StartParallel ==
  /\ pc = "loop" /\ i <= NSteps
  /\ shouldRun(i)
  /\ IsParallelPair(i)
  /\ phase' = BUILD_STEPS[i + 1].phase
  /\ exec' = [exec EXCEPT ![i] = "running", ![i + 1] = "running"]
  /\ startLog' = startLog \o <<i, i + 1>>
  /\ pc' = "par"
  /\ UNCHANGED <<i, options, outputs, timings, error, failedStep, results,
                 fs, ctxVars, callVars, entryVars, scaffold, stepVars>>

\* executeStep(step) is started on its own
StartSequential ==
  /\ pc = "loop" /\ i <= NSteps
  /\ shouldRun(i)
  /\ ~IsParallelPair(i)
  /\ phase' = BUILD_STEPS[i].phase
  /\ exec' = [exec EXCEPT ![i] = "running"]
  /\ startLog' = Append(startLog, i)
  /\ pc' = "seq"
  /\ LaunchEffect(i)
  /\ UNCHANGED <<i, options, outputs, timings, error, failedStep, results,
                 callVars, entryVars, scaffold, stepVars>>

\* the awaited executeStep(step) resolves: timing, storeStepOutput, next iteration
SequentialResolves ==
  /\ pc = "seq" /\ exec[i] = "running"
  /\ CanResolve(i)
  /\ timings' = timings \cup {StepName(i)}
  /\ outputs' = storeStepOutput(i, StepData(i), outputs)
  /\ exec' = [exec EXCEPT ![i] = "resolved"]
  /\ ResolveEffect(i)
  /\ i' = i + 1
  /\ pc' = "loop"
  /\ UNCHANGED <<phase, options, error, failedStep, results, startLog, callVars, entryVars, scaffold, stepVars>>

\* slip: the catch block records the failure but does not rethrow
SequentialRejects_continues ==
  /\ pc = "seq" /\ exec[i] = "running"
  /\ \E e \in StepErrors(i) :
       /\ phase' = "failed"
       /\ error' = e
       /\ failedStep' = failedStepOf(i, i)
  /\ exec' = [exec EXCEPT ![i] = "rejected"]
  /\ i' = i + 1
  /\ pc' = "loop"
  /\ UNCHANGED <<options, outputs, timings, results, startLog, fs, ctxVars,
                 callVars, entryVars, scaffold, stepVars>>

\* the awaited executeStep(step) rejects: catch block of the sequential path
SequentialRejects ==
  /\ pc = "seq" /\ exec[i] = "running"
  /\ \E e \in StepErrors(i) :
       /\ phase' = "failed"
       /\ error' = e
       /\ failedStep' = failedStepOf(i, i)
       /\ thrown' = Val(formatBuildError(e))
  /\ exec' = [exec EXCEPT ![i] = "rejected"]
  /\ pc' = "rejected"
  /\ UNCHANGED <<i, options, outputs, timings, results, startLog, fs, ctxVars,
                 callVars, entryVars, scaffold, subVars>>

\* one executeStep of the pair resolves while Promise.all is pending
ParallelResolves(k) ==
  /\ pc = "par" /\ k \in {i, i + 1} /\ exec[k] = "running"
  /\ CanResolve(k)
  /\ timings' = timings \cup {StepName(k)}
  /\ results' = [results EXCEPT ![k] = StepData(k)]
  /\ exec' = [exec EXCEPT ![k] = "resolved"]
  /\ ResolveEffect(k)
  /\ UNCHANGED <<i, pc, phase, options, outputs, error, failedStep, startLog,
                 callVars, entryVars, scaffold, stepVars>>

\* one executeStep of the pair rejects: Promise.all rejects, catch block of the pair
ParallelRejects(k) ==
  /\ pc = "par" /\ k \in {i, i + 1} /\ exec[k] = "running"
  /\ \E e \in StepErrors(k) :
       /\ phase' = "failed"
       /\ error' = e
       /\ failedStep' = failedStepOf(i, k)
       /\ thrown' = Val(formatBuildError(e))
  /\ exec' = [exec EXCEPT ![k] = "rejected"]
  /\ pc' = "rejected"
  /\ UNCHANGED <<i, options, outputs, timings, results, startLog, fs, ctxVars,
                 callVars, entryVars, scaffold, subVars>>

\* slip: the extra i++ that passes the server step is missing
JoinParallel_noSkip ==
  /\ pc = "par" /\ exec[i] = "resolved" /\ exec[i + 1] = "resolved"
  /\ outputs' = storeStepOutput(i + 1, results[i + 1], storeStepOutput(i, results[i], outputs))
  /\ i' = i + 1
  /\ pc' = "loop"
  /\ UNCHANGED <<phase, options, timings, error, failedStep, exec, results, startLog,
                 fs, ctxVars, callVars, entryVars, scaffold, stepVars>>

\* Promise.all resolves: both outputs are stored, the loop index passes the pair
JoinParallel ==
  /\ pc = "par" /\ exec[i] = "resolved" /\ exec[i + 1] = "resolved"
  /\ outputs' = storeStepOutput(i + 1, results[i + 1], storeStepOutput(i, results[i], outputs))
  /\ i' = i + 2
  /\ pc' = "loop"
  /\ UNCHANGED <<phase, options, timings, error, failedStep, exec, results, startLog,
                 fs, ctxVars, callVars, entryVars, scaffold, stepVars>>

\* after the pipeline failed, the other executeStep of the pair is still pending:
\* its execute() resolves and executeStep records its timing
SiblingResolves(k) ==
  /\ pc = "rejected" /\ exec[k] = "running"
  /\ CanResolve(k)
  /\ timings' = timings \cup {StepName(k)}
  /\ exec' = [exec EXCEPT ![k] = "resolved"]
  /\ ResolveEffect(k)
  /\ UNCHANGED <<i, pc, phase, options, outputs, error, failedStep, results, startLog,
                 callVars, entryVars, scaffold, stepVars>>

\* ... or rejects: Promise.all has already settled, the rejection is dropped
SiblingRejects(k) ==
  /\ pc = "rejected" /\ exec[k] = "running"
  /\ exec' = [exec EXCEPT ![k] = "rejected"]
  /\ UNCHANGED <<i, pc, phase, options, outputs, timings, error, failedStep, results,
                 startLog, fs, ctxVars, callVars, entryVars, scaffold, stepVars>>

\* the loop ends: state.phase = Completed, return state
Complete ==
  /\ pc = "loop" /\ i = NSteps + 1
  /\ phase' = "completed"
  /\ pc' = "returned"
  /\ UNCHANGED <<i, options, outputs, timings, error, failedStep, exec, results, startLog,
                 fs, ctxVars, callVars, entryVars, scaffold, stepVars>>

Next ==
  \/ SkipStep
  \/ StartParallel
  \/ StartSequential
  \/ SequentialResolves
  \/ SequentialRejects
  \/ \E k \in StepIds : ParallelResolves(k)
  \/ \E k \in StepIds : ParallelRejects(k)
  \/ JoinParallel
  \/ \E k \in StepIds : SiblingResolves(k)
  \/ \E k \in StepIds : SiblingRejects(k)
  \/ Complete

Spec == Init /\ [][Next]_vars


\* ------------------------------------------------------------------------
\* Properties of the orchestrator
\* ------------------------------------------------------------------------
Tailwind == StepIndex("04-tailwind-css")
Server == StepIndex("05-server-build")
ClientBuild == StepIndex("06-client-build")

Threw == \E k \in StepIds : exec[k] = "rejected"
Running == { k \in StepIds : exec[k] = "running" }
Starts(k) == Cardinality({ n \in 1..Len(startLog) : startLog[n] = k })

\* C1: once the execute of a step has thrown, runBuildPipeline has rejected,
\* state.phase is Failed and no further step is started in that build.
C1_FailFast ==
  [][ (\E k \in StepIds : exec'[k] = "rejected")
        => /\ pc' = "rejected"
           /\ phase' = "failed"
           /\ startLog' = startLog ]_vars

\* C1 witness: the client-bundle step threw and nothing after it was started
C1_Witness ==
  /\ exec[ClientBuild] = "rejected"
  /\ phase = "failed"
  /\ \A k \in StepIds : k > ClientBuild => exec[k] = "idle"

\* C2 (as claimed): whenever the pipeline is Failed, failedStep names the step whose
\* execute threw, and error is that step's error.
C2_FailedStepIsThrower ==
  phase = "failed" => /\ error # NoError
                      /\ failedStep = error.origin
                      /\ exec[StepIndex(error.origin)] = "rejected"

\* C3: steps are started in declaration order; a step is started only after every
\* earlier started step has resolved, the style-compile/server-bundle pair excepted;
\* no two steps other than that pair are executing at the same time.
C3_DeclarationOrder ==
  /\ \A a, b \in 1..Len(startLog) : a < b => startLog[a] < startLog[b]
  /\ \A k \in StepIds : exec[k] # "idle" =>
       \A j \in 1..(k - 1) :
         \/ exec[j] \in {"idle", "resolved"}
         \/ (j = Tailwind /\ k = Server)
  /\ \A j, k \in Running : j # k => {j, k} = {Tailwind, Server}

\* C3 witness: a build in which all twelve steps were executed has returned
C3_Witness ==
  /\ pc = "returned"
  /\ Len(startLog) = NSteps

\* C4: at the style-compile step, if the server step's predicate holds both are
\* started together, nothing later is started until both have resolved, a failure
\* of either fails the pipeline and the server step is started exactly once;
\* otherwise style-compile is started alone and the server step never executes.
C4_ParallelPair ==
  /\ [](/\ \A k \in StepIds :
             (k > Server /\ exec[k] # "idle") =>
               /\ exec[Tailwind] = "resolved"
               /\ exec[Server] \in {"idle", "resolved"}
        /\ (exec[Tailwind] = "rejected" \/ exec[Server] = "rejected") => phase = "failed"
        /\ Starts(Server) <= 1
        /\ exec[Server] # "idle" => options.ssg = "true")
  /\ [][ /\ (exec[Tailwind] = "idle" /\ exec'[Tailwind] # "idle") =>
              IF shouldRun(Server)
                THEN exec'[Tailwind] = "running" /\ exec'[Server] = "running"
                ELSE exec'[Tailwind] = "running" /\ exec'[Server] = "idle"
         /\ (exec[Tailwind] # "idle" /\ exec[Server] = "idle") => exec'[Server] = "idle"
       ]_vars

\* C4 witness: both steps of the pair are executing at the same time
C4_Witness ==
  /\ exec[Tailwind] = "running"
  /\ exec[Server] = "running"

\* C5: a step whose shouldRun is false is passed over: its execute is not invoked,
\* phase, timings and outputs are unchanged, and the loop moves to the next step.
C5_SkipFrame ==
  [][ (pc = "loop" /\ i <= NSteps /\ ~shouldRun(i))
        => /\ exec'[i] = "idle"
           /\ startLog' = startLog
           /\ phase' = phase
           /\ timings' = timings
           /\ outputs' = outputs
           /\ pc' = "loop"
           /\ i' = i + 1 ]_vars

\* C5 witness: the server-bundle step was skipped after style-compile ran alone
C5_Witness ==
  /\ pc = "loop"
  /\ i = Server + 1
  /\ exec[Server] = "idle"
  /\ exec[Tailwind] = "resolved"
  /\ StepName(Server) \notin timings


\* ------------------------------------------------------------------------
\* The Entry model on its own: construct an Entry, then derive an artifact path
\* ------------------------------------------------------------------------
DirWords == {"docs", "index"}

RECURSIVE DirsUpTo(_)
DirsUpTo(n) ==
  IF n = 0 THEN { <<>> }
  ELSE DirsUpTo(n - 1) \cup { d \o <<w, Sep>> : d \in DirsUpTo(n - 1), w \in DirWords }

Stems == { <<"index">>, <<"about">>, <<"index", Dot, "v2">>, <<"my", "index">> }

\* document paths relative to the pages directory, as the glob delivers them
EntryFiles == { d \o st \o <<Dot, x>> : d \in DirsUpTo(MaxDepth), st \in Stems, x \in {"md", "mdx"} }

ArtifactExts == { <<Dot, "html">>, <<Dot, "tsx">>, <<Dot, "jsx">>, <<Dot, "js">> }
ArtifactBases == { buildDir, clientSrcDir, serverSrcDir, serverCompiledDir }

InitEntry ==
  /\ InitPipeline
  /\ options = [ssg |-> "unset", static |-> "unset"]
  /\ InitContext
  /\ InitCalls
  /\ InitScaffoldIdle
  /\ InitStepsIdle
  /\ fs = {}
  /\ eIn \in [file : EntryFiles, ext : ArtifactExts, base : ArtifactBases]
  /\ eOut = Unset

\* new Entry(mdxFile, this.pagesDir)
ConstructEntry ==
  /\ eOut = Unset
  /\ eOut' = Val([entry |-> Entry(resolve(pagesDir, eIn.file), pagesDir), artifact |-> Unset])
  /\ UNCHANGED <<pipeVars, fs, ctxVars, callVars, eIn, scaffold, stepVars>>

\* entry.getArtifactPath(extension, baseDir)
DeriveArtifact ==
  /\ eOut # Unset
  /\ eOut.v.artifact = Unset
  /\ eOut' = Val([eOut.v EXCEPT !.artifact =
                    Val(getArtifactPath(eOut.v.entry.name, eIn.ext, eIn.base))])
  /\ UNCHANGED <<pipeVars, fs, ctxVars, callVars, eIn, scaffold, stepVars>>

NextEntry == ConstructEntry \/ DeriveArtifact

SpecEntry == InitEntry /\ [][NextEntry]_vars

\* the tokens after the last separator of a path
LastSegmentOf(p) == SubSeq(p, LastIndexOf(p, Sep) + 1, Len(p))

ArtifactDerived == eOut # Unset /\ eOut.v.artifact # Unset

\* C6: the artifact path is baseDir/<name><ext> when the last segment of the entry
\* name is exactly "index" (at any depth) and baseDir/<name>/index<ext> otherwise;
\* about.md -> about/index.html, docs/index.md -> docs/index.html, index.md -> index.html.
C6_IndexFolding ==
  ArtifactDerived =>
    LET name == eOut.v.entry.name
        path == eOut.v.artifact.v
    IN /\ name = SubSeq(eIn.file, 1, Len(eIn.file) - 2)
       /\ path = IF LastSegmentOf(name) = <<"index">>
                   THEN eIn.base \o <<Sep>> \o name \o eIn.ext
                   ELSE eIn.base \o <<Sep>> \o name \o <<Sep, "index">> \o eIn.ext
       /\ (eIn.file = <<"about", Dot, "md">> /\ eIn.ext = <<Dot, "html">>)
            => path = eIn.base \o <<Sep, "about", Sep, "index", Dot, "html">>
       /\ (eIn.file = <<"docs", Sep, "index", Dot, "md">> /\ eIn.ext = <<Dot, "html">>)
            => path = eIn.base \o <<Sep, "docs", Sep, "index", Dot, "html">>
       /\ (eIn.file = <<"index", Dot, "md">> /\ eIn.ext = <<Dot, "html">>)
            => path = eIn.base \o <<Sep, "index", Dot, "html">>

\* C6 witness: the artifact of docs/index.md was derived and folded to docs/index.html
C6_Witness ==
  /\ ArtifactDerived
  /\ eIn.file = <<"docs", Sep, "index", Dot, "md">>
  /\ eIn.ext = <<Dot, "html">>
  /\ eOut.v.artifact.v = eIn.base \o <<Sep, "docs", Sep, "index", Dot, "html">>


\* ------------------------------------------------------------------------
\* BuildContext under concurrent callers (src/build/context.ts)
\*
\* Every async method is cut at its suspension points (await).  A caller starts
\* a call, the call proceeds one segment at a time, and its return is recorded
\* in ret.  reset() is only called by the reset step, which the orchestrator
\* runs on its own, and the project files are not edited during a call.
\* ------------------------------------------------------------------------
AllIdle == \A c \in Callers : calls[c] = NoCall
Resetting == \E c \in Callers : calls[c].op = "reset"
CanCall(c) == calls[c] = NoCall /\ ~Resetting /\ hist.calls < MaxCalls

Writing(c, t) == calls[c].op = "materializeEmbeddedFile" /\ calls[c].t = t

\* ghost: the candidates of resolver `via` that exist now (none for a direct call)
SeenCandidates(via) ==
  IF via \in Resolvers
    THEN { k \in 1..Len(Candidates(via)) : resolve(rootDir, Candidates(via)[k]) \in fs }
    ELSE {}

\* history of a call of materializeEmbeddedFile(t) that found the path cached
HistCached(h, t, path) ==
  [h EXCEPT !.tpl[t].done = @ + 1, !.tpl[t].paths = @ \cup {path}]

\* history of a call of materializeEmbeddedFile(t) that wrote the file
HistWritten(h, t, path) ==
  [h EXCEPT !.tpl[t].done = @ + 1, !.tpl[t].paths = @ \cup {path}, !.tpl[t].writes = @ + 1]

\* history of a call that passes the has() check for t and starts writing
HistStartWrite(h, c, t) ==
  IF \E d \in Callers \ {c} : Writing(d, t) THEN [h EXCEPT !.tpl[t].overlap = TRUE] ELSE h

MatInputs == {TplPageWrapper, TplMissing}

\* slip: the cache is not consulted
materializeEmbeddedFile_noMemo(c, t, via, h) ==
  /\ calls' = [calls EXCEPT ![c] = [op |-> "materializeEmbeddedFile", t |-> t, via |-> via]]
  /\ hist' = HistStartWrite(h, c, t)
  /\ UNCHANGED <<ret, fs, ctxVars>>

\* materializeEmbeddedFile(templatePath) up to its await, entered by caller c
\* on behalf of `via`; h is the history with the call already counted
materializeEmbeddedFile(c, t, via, h) ==
  IF t \in DOMAIN materializedPaths
    THEN /\ ret' = [op |-> via, t |-> t, path |-> materializedPaths[t],
                    wrote |-> FALSE, threw |-> FALSE,
                    seen |-> SeenCandidates(via), onDisk |-> materializedPaths[t] \in fs]
         /\ hist' = HistCached(h, t, materializedPaths[t])
         /\ calls' = [calls EXCEPT ![c] = NoCall]
         /\ UNCHANGED <<fs, ctxVars>>
    ELSE /\ calls' = [calls EXCEPT ![c] = [op |-> "materializeEmbeddedFile", t |-> t, via |-> via]]
         /\ hist' = HistStartWrite(h, c, t)
         /\ UNCHANGED <<ret, fs, ctxVars>>

\* a caller calls materializeEmbeddedFile(t) directly
CallMaterialize(c, t) ==
  /\ CanCall(c)
  /\ materializeEmbeddedFile(c, t, "materializeEmbeddedFile", [hist EXCEPT !.calls = @ + 1])
  /\ UNCHANGED <<pipeVars, entryVars, scaffold, stepVars>>

\* await materializeTemplate(...) returns: the file is written, the path is cached
MaterializeWritten(c) ==
  /\ calls[c].op = "materializeEmbeddedFile"
  /\ calls[c].via # "getComponentMap"
  /\ hasTemplate(calls[c].t)
  /\ LET t == calls[c].t
         target == MaterializeTarget(t)
     IN /\ fs' = fs \cup {target}
        /\ materializedPaths' = Put(materializedPaths, t, target)
        /\ hist' = HistWritten(hist, t, target)
        /\ ret' = [op |-> calls[c].via, t |-> t, path |-> target,
                   wrote |-> TRUE, threw |-> FALSE,
                   seen |-> SeenCandidates(calls[c].via), onDisk |-> target \in fs']
  /\ calls' = [calls EXCEPT ![c] = NoCall]
  /\ UNCHANGED <<pipeVars, entries, componentMap, componentConflicts, nextInst, entryVars, scaffold, stepVars>>

\* await materializeTemplate(...) throws: template not found, or mkdir/writeFile failed
MaterializeFails(c) ==
  /\ calls[c].op = "materializeEmbeddedFile"
  /\ calls[c].via # "getComponentMap"
  /\ ret' = [op |-> calls[c].via, t |-> calls[c].t, path |-> <<>>,
             wrote |-> FALSE, threw |-> TRUE,
             seen |-> SeenCandidates(calls[c].via), onDisk |-> FALSE]
  /\ calls' = [calls EXCEPT ![c] = NoCall]
  /\ UNCHANGED <<pipeVars, fs, ctxVars, hist, entryVars, scaffold, stepVars>>

\* a caller calls one of the four fallback resolvers: resolvePathWithFallback
\* runs up to its first await fs.exists(userPath)
CallResolver(c, r) ==
  /\ CanCall(c)
  /\ calls' = [calls EXCEPT ![c] = [op |-> r, idx |-> 1]]
  /\ hist' = [hist EXCEPT !.calls = @ + 1]
  /\ UNCHANGED <<pipeVars, fs, ctxVars, ret, entryVars, scaffold, stepVars>>

\* slip: the cached embedded default is preferred to the project file
ResolverChecked_cacheFirst(c) ==
  /\ calls[c].op \in Resolvers
  /\ LET r == calls[c].op
     IN IF Fallback(r) \in DOMAIN materializedPaths \/ calls[c].idx = Len(Candidates(r))
          THEN materializeEmbeddedFile(c, Fallback(r), r, hist)
          ELSE /\ calls' = [calls EXCEPT ![c].idx = @ + 1]
               /\ UNCHANGED <<ret, hist, fs, ctxVars>>
  /\ UNCHANGED <<pipeVars, entryVars, scaffold, stepVars>>

\* await fs.exists(userPath) returns for the current candidate
ResolverChecked(c) ==
  /\ calls[c].op \in Resolvers
  /\ LET r == calls[c].op
         k == calls[c].idx
         userPath == resolve(rootDir, Candidates(r)[k])
     IN IF userPath \in fs
          THEN /\ ret' = [op |-> r, t |-> Fallback(r), path |-> userPath,
                          wrote |-> FALSE, threw |-> FALSE,
                          seen |-> SeenCandidates(r), onDisk |-> TRUE]
               /\ calls' = [calls EXCEPT ![c] = NoCall]
               /\ UNCHANGED <<hist, fs, ctxVars>>
          ELSE IF k < Len(Candidates(r))
            THEN /\ calls' = [calls EXCEPT ![c].idx = k + 1]
                 /\ UNCHANGED <<ret, hist, fs, ctxVars>>
            ELSE materializeEmbeddedFile(c, Fallback(r), r, hist)
  /\ UNCHANGED <<pipeVars, entryVars, scaffold, stepVars>>

\* the reset step calls ctx.reset(): resetBuildDir() is entered
CallReset(c) ==
  /\ AllIdle
  /\ hist.calls < MaxCalls
  /\ calls' = [calls EXCEPT ![c] = [op |-> "reset", stage |-> "buildDir"]]
  /\ hist' = [hist EXCEPT !.calls = @ + 1]
  /\ UNCHANGED <<pipeVars, fs, ctxVars, ret, entryVars, scaffold, stepVars>>

\* resetBuildDir() has removed and recreated the output directory
ResetBuildDir(c) ==
  /\ calls[c].op = "reset" /\ calls[c].stage = "buildDir"
  /\ fs' = RemoveDir(fs, buildDir)
  /\ calls' = [calls EXCEPT ![c].stage = "tempDir"]
  /\ UNCHANGED <<pipeVars, ctxVars, ret, hist, entryVars, scaffold, stepVars>>

\* resetTempDir() has removed and recreated the cache directory; clearCaches()
ResetTempDir(c) ==
  /\ calls[c].op = "reset" /\ calls[c].stage = "tempDir"
  /\ fs' = RemoveDir(fs, tempDir)
  /\ clearCaches
  /\ hist' = NoHistory(hist.calls, hist.edits)
  /\ ret' = [op |-> "reset"]
  /\ calls' = [calls EXCEPT ![c] = NoCall]
  /\ UNCHANGED <<pipeVars, nextInst, entryVars, scaffold, stepVars>>

\* the author adds or removes a project file between two calls
EditFile(f) ==
  /\ AllIdle
  /\ hist.edits < MaxEdits
  /\ fs' = IF f \in fs THEN fs \ {f} ELSE fs \cup {f}
  /\ hist' = [hist EXCEPT !.edits = @ + 1]
  /\ UNCHANGED <<pipeVars, ctxVars, calls, ret, entryVars, scaffold, stepVars>>

\* the project files the resolvers look for
CandidateFiles ==
  UNION { { resolve(rootDir, Candidates(r)[k]) : k \in 1..Len(Candidates(r)) } : r \in Resolvers }


\* ------------------------------------------------------------------------
\* Specification: callers of the resolvers and of materializeEmbeddedFile
\* ------------------------------------------------------------------------
\* the project files the author adds or removes between calls
EditableCandidates ==
  { resolve(rootDir, <<"src", Sep, "PageWrapper", Dot, "jsx">>),
    resolve(rootDir, <<"src", Sep, "index", Dot, "css">>) }

InitCtx ==
  /\ InitPipeline
  /\ options = [ssg |-> "unset", static |-> "unset"]
  /\ InitContext
  /\ InitCalls
  /\ InitScaffoldIdle
  /\ InitStepsIdle
  /\ InitEntryIdle
  /\ \E S \in SUBSET CandidateFiles : Cardinality(S) <= MaxFiles /\ fs = S

NextCtx ==
  \/ \E c \in Callers, t \in MatInputs : CallMaterialize(c, t)
  \/ \E c \in Callers : MaterializeWritten(c)
  \/ \E c \in Callers : MaterializeFails(c)
  \/ \E c \in Callers, r \in Resolvers : CallResolver(c, r)
  \/ \E c \in Callers : ResolverChecked(c)
  \/ \E c \in Callers : CallReset(c)
  \/ \E c \in Callers : ResetBuildDir(c)
  \/ \E c \in Callers : ResetTempDir(c)
  \/ \E f \in EditableCandidates : EditFile(f)

SpecCtx == InitCtx /\ [][NextCtx]_vars

\* C8: since the last clearCaches(), two or more completed calls of
\* materializeEmbeddedFile for one template id, made one after the other (directly
\* or through a resolver), performed exactly one write and returned one path.
C8_MaterializeOnce ==
  \A t \in TemplateIds :
    (hist.tpl[t].done >= 2 /\ ~hist.tpl[t].overlap)
      => /\ hist.tpl[t].writes = 1
         /\ Cardinality(hist.tpl[t].paths) = 1

\* C8 witness: the page wrapper default was returned twice after a single write
C8_Witness ==
  /\ hist.tpl[TplPageWrapper].done >= 2
  /\ ~hist.tpl[TplPageWrapper].overlap
  /\ hist.tpl[TplPageWrapper].writes = 1

Least(S) == CHOOSE k \in S : \A j \in S : k <= j

\* C9: a resolver returns the first candidate of its list that exists under the
\* project root, without writing; only when none exists it returns the embedded
\* default materialized under the cache directory.  An existing src/PageWrapper.jsx
\* is returned even when the embedded default is already cached.
C9_ProjectFileWins ==
  (ret.op \in Resolvers /\ ~ret.threw) =>
    /\ IF ret.seen # {}
         THEN /\ ret.path = rootDir \o <<Sep>> \o Candidates(ret.op)[Least(ret.seen)]
              /\ ~ret.wrote
         ELSE /\ ret.path = embeddedTemplatesDir \o <<Sep>> \o Fallback(ret.op)
              /\ ret.onDisk
    /\ (ret.op = "pageWrapperPath" /\ 1 \in ret.seen)
         => ret.path = <<Sep, "proj", Sep, "src", Sep, "PageWrapper", Dot, "jsx">>

\* C9 witness: pageWrapperPath() returned the project's src/PageWrapper.jsx although
\* the embedded default had been materialized and was still cached
C9_Witness ==
  /\ ret.op = "pageWrapperPath"
  /\ 1 \in ret.seen
  /\ TplPageWrapper \in DOMAIN materializedPaths
  /\ ret.path = resolve(rootDir, <<"src", Sep, "PageWrapper", Dot, "jsx">>)


\* ------------------------------------------------------------------------
\* Discovery: getEntries() and getComponentMap()
\* ------------------------------------------------------------------------
\* getEntries(): no suspension point, the call returns in one piece
CallGetEntries(c) ==
  /\ CanCall(c)
  /\ IF entries = Unset
       THEN /\ \E m \in EntryMaps(fs) :
                 /\ entries' = Val([inst |-> nextInst, map |-> m])
                 /\ ret' = [op |-> "getEntries", inst |-> nextInst, map |-> m,
                            computed |-> TRUE, prev |-> hist.entriesInsts,
                            docs |-> GlobDocs(fs)]
            /\ nextInst' = nextInst + 1
            /\ hist' = [hist EXCEPT !.calls = @ + 1, !.entriesInsts = @ \cup {nextInst}]
       ELSE /\ ret' = [op |-> "getEntries", inst |-> entries.v.inst, map |-> entries.v.map,
                       computed |-> FALSE, prev |-> hist.entriesInsts,
                       docs |-> GlobDocs(fs)]
            /\ hist' = [hist EXCEPT !.calls = @ + 1, !.entriesInsts = @ \cup {entries.v.inst}]
            /\ UNCHANGED <<entries, nextInst>>
  /\ UNCHANGED <<pipeVars, fs, componentMap, componentConflicts, materializedPaths,
                 calls, entryVars, scaffold, stepVars>>

ComponentExts == {"js", "jsx", "ts", "tsx"}

\* the files under dir that match '**/*.{js,jsx,ts,tsx}'
GlobComponents(files, dir) ==
  { p \in files : /\ IsUnder(dir, p)
                  /\ Len(p) >= 2
                  /\ p[Len(p) - 1] = Dot
                  /\ p[Len(p)] \in ComponentExts }

\* the bare component name of a file
ComponentName(p) == StripExt(basename(p))

\* buildFileMap(dir, pattern, true): bare name -> file, and the names defined by
\* more than one file of the directory
buildFileMap(files, dir) ==
  LET found == GlobComponents(files, dir)
      names == { ComponentName(p) : p \in found }
  IN { [map |-> m, conflicts |-> { n \in names : Cardinality({ p \in found : ComponentName(p) = n }) > 1 }] :
         m \in { f \in [names -> found] : \A n \in names : ComponentName(f[n]) = n } }

\* slip: a name found in both directories is taken from the pages directory
MergePages_overwrite(result, pagesMap, todo) ==
  [result EXCEPT !.map = [n \in (DOMAIN @) \cup todo |->
                            IF n \in todo THEN pagesMap[n] ELSE @[n]]]

\* the loop of getComponentMap() that merges the pages scan into the src scan
RECURSIVE MergePages(_, _, _)
MergePages(result, pagesMap, todo) ==
  IF todo = {} THEN result
  ELSE LET n == CHOOSE x \in todo : TRUE
       IN MergePages(
            IF n \in DOMAIN result.map
              THEN [result EXCEPT !.conflicts = @ \cup {n}]
              ELSE [result EXCEPT !.map = Put(@, n, pagesMap[n])],
            pagesMap, todo \ {n})

\* slip: the conflicts of the pages scan are not carried over
ScanResults_dropPagesConflicts(files) ==
  LET srcResults == IF DirExists(files, srcDir)
                      THEN buildFileMap(files, srcDir)
                      ELSE { [map |-> EmptyMap, conflicts |-> {}] }
      pagesResults == IF DirExists(files, pagesDir)
                        THEN buildFileMap(files, pagesDir)
                        ELSE { [map |-> EmptyMap, conflicts |-> {}] }
  IN { MergePages(s, pr.map, DOMAIN pr.map) : s \in srcResults, pr \in pagesResults }

\* the scans of getComponentMap(), before the fallbacks
ScanResults(files) ==
  LET srcResults == IF DirExists(files, srcDir)
                      THEN buildFileMap(files, srcDir)
                      ELSE { [map |-> EmptyMap, conflicts |-> {}] }
      pagesResults == IF DirExists(files, pagesDir)
                        THEN buildFileMap(files, pagesDir)
                        ELSE { [map |-> EmptyMap, conflicts |-> {}] }
  IN { LET merged == MergePages(s, pr.map, DOMAIN pr.map)
       IN IF DirExists(files, pagesDir)
            THEN [merged EXCEPT !.conflicts = @ \cup pr.conflicts]
            ELSE s
       : s \in srcResults, pr \in pagesResults }

\* the built-in components that are back-filled from the embedded templates
Fallbacks ==
  << [comp |-> <<"PageWrapper">>, tpl |-> TplPageWrapper, guarded |-> FALSE],
     [comp |-> <<"CodeBlock">>, tpl |-> TplCodeBlock, guarded |-> TRUE],
     [comp |-> <<"Heading">>, tpl |-> TplHeading, guarded |-> TRUE] >>

\* the fallback part of getComponentMap() up to the next file to write:
\* names already in the map are left alone, cached templates are taken from the
\* cache, the first template that is not cached suspends the call
RECURSIVE FillFallbacks(_, _, _, _)
FillFallbacks(map, todo, mp, h) ==
  IF todo = <<>> THEN [pending |-> FALSE, map |-> map, h |-> h]
  ELSE LET f == Head(todo) IN
    IF f.comp \in DOMAIN map \/ (f.guarded /\ ~hasTemplate(f.tpl))
      THEN FillFallbacks(map, Tail(todo), mp, h)
    ELSE IF f.tpl \in DOMAIN mp
      THEN FillFallbacks(Put(map, f.comp, mp[f.tpl]), Tail(todo), mp, HistCached(h, f.tpl, mp[f.tpl]))
    ELSE [pending |-> TRUE, map |-> map, h |-> h, comp |-> f.comp, tpl |-> f.tpl,
          rest |-> Tail(todo)]

\* getComponentMap() continues after a suspension with the local result
ContinueComponentMap(c, conflicts, step, prev) ==
  IF step.pending
    THEN /\ calls' = [calls EXCEPT ![c] =
                        [op |-> "materializeEmbeddedFile", via |-> "getComponentMap",
                         t |-> step.tpl, comp |-> step.comp, map |-> step.map,
                         conflicts |-> conflicts, rest |-> step.rest, prev |-> prev]]
         /\ hist' = HistStartWrite(step.h, c, step.tpl)
         /\ UNCHANGED <<ret, componentMap, componentConflicts, nextInst>>
    ELSE /\ componentMap' = Val([inst |-> nextInst, map |-> step.map])
         /\ componentConflicts' = Val(conflicts)
         /\ nextInst' = nextInst + 1
         /\ ret' = [op |-> "getComponentMap", inst |-> nextInst, map |-> step.map,
                    conflicts |-> conflicts, computed |-> TRUE, threw |-> FALSE,
                    prev |-> prev,
                    comps |-> GlobComponents(fs, srcDir) \cup GlobComponents(fs, pagesDir)]
         /\ hist' = [step.h EXCEPT !.componentInsts = @ \cup {nextInst}]
         /\ calls' = [calls EXCEPT ![c] = NoCall]

\* getComponentMap() is called: the memo is returned, or the scans are started
CallGetComponentMap(c) ==
  /\ CanCall(c)
  /\ IF componentMap # Unset
       THEN /\ ret' = [op |-> "getComponentMap", inst |-> componentMap.v.inst,
                       map |-> componentMap.v.map, conflicts |-> componentConflicts.v,
                       computed |-> FALSE, threw |-> FALSE, prev |-> hist.componentInsts,
                       comps |-> GlobComponents(fs, srcDir) \cup GlobComponents(fs, pagesDir)]
            /\ hist' = [hist EXCEPT !.calls = @ + 1,
                                    !.componentInsts = @ \cup {componentMap.v.inst}]
            /\ UNCHANGED calls
       ELSE /\ calls' = [calls EXCEPT ![c] = [op |-> "getComponentMap",
                                              prev |-> hist.componentInsts]]
            /\ hist' = [hist EXCEPT !.calls = @ + 1,
                                    !.componentOverlap =
                                       @ \/ \E d \in Callers \ {c} :
                                              \/ calls[d].op = "getComponentMap"
                                              \/ /\ calls[d].op = "materializeEmbeddedFile"
                                                 /\ calls[d].via = "getComponentMap"]
            /\ UNCHANGED ret
  /\ UNCHANGED <<pipeVars, fs, entries, componentMap, componentConflicts,
                 materializedPaths, nextInst, entryVars, scaffold, stepVars>>

\* the awaited scans of the src and pages directories return
ComponentScanDone(c) ==
  /\ calls[c].op = "getComponentMap"
  /\ \E r \in ScanResults(fs) :
       ContinueComponentMap(c, r.conflicts,
                            FillFallbacks(r.map, Fallbacks, materializedPaths, hist),
                            calls[c].prev)
  /\ UNCHANGED <<pipeVars, fs, entries, materializedPaths, entryVars, scaffold, stepVars>>

\* the awaited materializeEmbeddedFile of a fallback returns: file written, path cached
ComponentFallbackWritten(c) ==
  /\ calls[c].op = "materializeEmbeddedFile"
  /\ calls[c].via = "getComponentMap"
  /\ hasTemplate(calls[c].t)
  /\ LET t == calls[c].t
         target == MaterializeTarget(t)
         mp == Put(materializedPaths, t, target)
     IN /\ fs' = fs \cup {target}
        /\ materializedPaths' = mp
        /\ ContinueComponentMap(c, calls[c].conflicts,
                                FillFallbacks(Put(calls[c].map, calls[c].comp, target),
                                              calls[c].rest, mp,
                                              HistWritten(hist, t, target)),
                                calls[c].prev)
  /\ UNCHANGED <<pipeVars, entries, entryVars, scaffold, stepVars>>

\* ... or throws: getComponentMap() rejects and caches nothing
ComponentFallbackFails(c) ==
  /\ calls[c].op = "materializeEmbeddedFile"
  /\ calls[c].via = "getComponentMap"
  /\ ret' = [op |-> "getComponentMap", threw |-> TRUE]
  /\ calls' = [calls EXCEPT ![c] = NoCall]
  /\ UNCHANGED <<pipeVars, fs, ctxVars, hist, entryVars, scaffold, stepVars>>


\* the component files a project may hold
ComponentUniverse ==
  { resolve(srcDir, <<"Card", Dot, "jsx">>),
    resolve(pagesDir, <<"Card", Dot, "tsx">>),
    resolve(srcDir, <<"PageWrapper", Dot, "jsx">>) }

\* the project files the author adds or removes between builds
EditableSources ==
  { resolve(pagesDir, <<"about", Dot, "mdx">>),
    resolve(srcDir, <<"Card", Dot, "jsx">>) }

InitDiscovery ==
  /\ InitPipeline
  /\ options = [ssg |-> "unset", static |-> "unset"]
  /\ InitContext
  /\ InitCalls
  /\ InitScaffoldIdle
  /\ InitStepsIdle
  /\ InitEntryIdle
  /\ \E D \in DocSets, S \in SUBSET ComponentUniverse :
       /\ Cardinality(S) <= MaxFiles
       /\ fs = PagesFiles(D) \cup S

NextDiscovery ==
  \/ \E c \in Callers : CallGetEntries(c)
  \/ \E c \in Callers : CallGetComponentMap(c)
  \/ \E c \in Callers : ComponentScanDone(c)
  \/ \E c \in Callers : ComponentFallbackWritten(c)
  \/ \E c \in Callers : ComponentFallbackFails(c)
  \/ \E c \in Callers : CallReset(c)
  \/ \E c \in Callers : ResetBuildDir(c)
  \/ \E c \in Callers : ResetTempDir(c)
  \/ \E f \in EditableSources : EditFile(f)

SpecDiscovery == InitDiscovery /\ [][NextDiscovery]_vars

\* the names the documents of a glob result normalize to
EntryNames(docs) == { Entry(d, pagesDir).name : d \in docs }

\* C7: within one discovery pass every discovered document keeps its own place
\* in the returned name-to-Entry map: no document is silently replaced by
\* another one that normalizes to the same entry name
C7_NoSilentReplacement ==
  (ret.op = "getEntries" /\ ret.computed) =>
     \A d \in ret.docs : \E n \in DOMAIN ret.map : ret.map[n].absPath = d

\* a returned map reflects the documents present when it was discovered
ReflectsDocuments(r) ==
  /\ DOMAIN r.map = EntryNames(r.docs)
  /\ \A n \in DOMAIN r.map : /\ r.map[n].absPath \in r.docs
                             /\ r.map[n] = Entry(r.map[n].absPath, pagesDir)
                             /\ r.map[n].name = n

\* a returned map reflects the components present when it was discovered
ReflectsComponents(r) ==
  /\ \A p \in r.comps : ComponentName(p) \in DOMAIN r.map
  /\ \A n \in DOMAIN r.map :
       \/ r.map[n] \in r.comps /\ ComponentName(r.map[n]) = n
       \/ /\ \E k \in 1..Len(Fallbacks) : /\ Fallbacks[k].comp = n
                                          /\ r.map[n] = MaterializeTarget(Fallbacks[k].tpl)
          /\ \A p \in r.comps : ComponentName(p) # n

C10_WitnessComponents ==
  /\ ret.op = "getComponentMap"
  /\ ~ret.threw
  /\ ~ret.computed
  /\ ~hist.componentOverlap
  /\ <<"PageWrapper">> \in DOMAIN ret.map


\* ------------------------------------------------------------------------
\* Properties of the pipeline's steps
\* ------------------------------------------------------------------------
CreateEntries == StepIndex("03-create-tsx-entries")
RenderServer == StepIndex("05b-render-server")

\* C11: with pre-render disabled or unset the server-bundle step and the render
\* step are never executed, serverEntryPts is null once the entry step has
\* stored its output (and never anything but unset or null), and
\* serverBuildResult and renderedContent stay unset, up to and including Completed
C11_NoServerWork ==
  options.ssg # "true" =>
    /\ exec[Server] = "idle"
    /\ exec[RenderServer] = "idle"
    /\ Starts(Server) = 0
    /\ Starts(RenderServer) = 0
    /\ {"05-server-build", "05b-render-server"} \cap timings = {}
    /\ outputs.serverEntryPts \in {Unset, Null}
    /\ outputs.entries # Unset => outputs.serverEntryPts = Null
    /\ outputs.serverBuildResult = Unset
    /\ outputs.renderedContent = Unset
    /\ phase = "completed" => outputs.serverEntryPts = Null

\* reached: a build without pre-render has completed
C11_Witness ==
  /\ options.ssg # "true"
  /\ phase = "completed"
  /\ pc = "returned"
  /\ outputs.serverEntryPts = Null
  /\ outputs.clientBuildResult # Unset

\* the files of the output directory
OutputFiles == { p \in fs : IsUnder(buildDir, p) }

\* C12: with no .md/.mdx document in the pages directory the entry step throws
\* the message that tells the user to create a document, the pipeline is Failed
\* with failedStep '03-create-tsx-entries', no later step is started and the
\* output directory is as the reset left it: empty
C12_NoDocumentsFails ==
  (GlobDocs(fs) = {} /\ exec[CreateEntries] \notin {"idle", "running"}) =>
    /\ exec[CreateEntries] = "rejected"
    /\ error = [msg |-> NoPagesMsg, origin |-> "03-create-tsx-entries"]
    /\ phase = "failed"
    /\ pc = "rejected"
    /\ failedStep = "03-create-tsx-entries"
    /\ \A k \in StepIds : k > CreateEntries => exec[k] = "idle"
    /\ startLog[Len(startLog)] = CreateEntries
    /\ OutputFiles = {}

\* reached: the entry step has thrown in a project without documents, after the
\* reset removed a stale output file
C12_Witness ==
  /\ GlobDocs(fs) = {}
  /\ exec[CreateEntries] = "rejected"
  /\ exec[StepIndex("02-reset-directories")] = "resolved"
  /\ StaleOutput \notin fs


\* ------------------------------------------------------------------------
\* Component conflicts: getComponentMap() and getComponentConflicts()
\* ------------------------------------------------------------------------
\* getComponentConflicts()
getComponentConflicts == IF componentConflicts = Unset THEN {} ELSE componentConflicts.v

\* a caller reads the conflict set
CallGetComponentConflicts(c) ==
  /\ CanCall(c)
  /\ ret' = [op |-> "getComponentConflicts", conflicts |-> getComponentConflicts,
             known |-> componentMap # Unset]
  /\ hist' = [hist EXCEPT !.calls = @ + 1]
  /\ UNCHANGED <<pipeVars, fs, ctxVars, calls, entryVars, scaffold, stepVars>>

\* component files of a project: the name Card is defined up to twice in each
\* of the two scanned directories
ComponentFiles ==
  { resolve(srcDir, <<"Card", Dot, "jsx">>),
    resolve(srcDir, <<"ui", Sep, "Card", Dot, "tsx">>),
    resolve(pagesDir, <<"Card", Dot, "tsx">>),
    resolve(pagesDir, <<"ui", Sep, "Card", Dot, "jsx">>),
    resolve(srcDir, <<"PageWrapper", Dot, "jsx">>) }

InitComponents ==
  /\ InitPipeline
  /\ options = [ssg |-> "unset", static |-> "unset"]
  /\ InitContext
  /\ InitCalls
  /\ InitScaffoldIdle
  /\ InitStepsIdle
  /\ InitEntryIdle
  /\ fs \in SUBSET ComponentFiles

NextComponents ==
  \/ \E c \in Callers : CallGetComponentMap(c)
  \/ \E c \in Callers : ComponentScanDone(c)
  \/ \E c \in Callers : ComponentFallbackWritten(c)
  \/ \E c \in Callers : ComponentFallbackFails(c)
  \/ \E c \in Callers : CallGetComponentConflicts(c)

SpecComponents == InitComponents /\ [][NextComponents]_vars

\* the project files of a directory that define the bare name n
Definers(dir, n) == { p \in GlobComponents(fs, dir) : ComponentName(p) = n }

ComponentNames ==
  { ComponentName(p) : p \in GlobComponents(fs, srcDir) \cup GlobComponents(fs, pagesDir) }

\* C13: after getComponentMap(), a bare name defined in the src directory and in
\* the pages directory is in getComponentConflicts() and the map still gives a
\* file of the src directory for it; a name that is defined twice inside one
\* of the two directories is in the conflict set as well
C13_ConflictRecorded ==
  componentMap # Unset =>
    \A n \in ComponentNames :
      /\ (Definers(srcDir, n) # {} /\ Definers(pagesDir, n) # {}) =>
           /\ n \in getComponentConflicts
           /\ n \in DOMAIN componentMap.v.map
           /\ componentMap.v.map[n] \in Definers(srcDir, n)
      /\ (Cardinality(Definers(srcDir, n)) > 1 \/ Cardinality(Definers(pagesDir, n)) > 1) =>
           n \in getComponentConflicts

\* reached: Card is defined once in src and twice in pages, the map is computed
C13_Witness ==
  /\ componentMap # Unset
  /\ Cardinality(Definers(srcDir, <<"Card">>)) = 1
  /\ Cardinality(Definers(pagesDir, <<"Card">>)) = 2
  /\ ret.op = "getComponentConflicts"
  /\ ret.conflicts = {<<"Card">>}

MINIMAL_FILES == {TplGitignore, TplAgents, TplPagesIndex}

MINIMAL_INFRASTRUCTURE_FILES == {TplFavicon}

MINIMAL_FILE_OVERRIDES ==
  [p \in {TplTemplatePageWrapper} |-> TplTemplatePageWrapperMinimal]

\* slip: the minimal variant is not on the skip list
MINIMAL_SKIP_FILES_withoutVariant ==
  {TplTemplatePageWrapper, TplHeader, TplFooter, TplScratchBadge, TplCopyright}

MINIMAL_SKIP_FILES ==
  {TplTemplatePageWrapper, TplTemplatePageWrapperMinimal,
   TplHeader, TplFooter, TplScratchBadge, TplCopyright}

\* String.startsWith
StartsWith(p, prefix) == Len(p) >= Len(prefix) /\ SubSeq(p, 1, Len(prefix)) = prefix

\* isMinimalFile(relativePath)
isMinimalFile(p) ==
  \/ p \in MINIMAL_FILES
  \/ StartsWith(p, <<"public", Sep>>)
  \/ StartsWith(p, <<"pages", Sep, "components", Sep>>)

\* isSrcFile(relativePath)
isSrcFile(p) == StartsWith(p, <<"src", Sep>>)

\* the directory the project is created in, and path.join(targetDir, relativePath)
targetDir == rootDir
TargetPath(p) == resolve(targetDir, p)

\* path.dirname
dirname(p) ==
  LET d == LastIndexOf(p, Sep)
  IN IF d = 0 THEN <<Dot>> ELSE IF d = 1 THEN <<Sep>> ELSE SubSeq(p, 1, d - 1)

\* getWritableContent(templates[key]); the content of a file the author wrote
EmbeddedContent(key) == [origin |-> "embedded", key |-> key]
ProjectContent == [origin |-> "project", key |-> <<>>]

\* the entry pushed for the pages directory in minimal mode
PagesDirEntry == <<"pages", Sep>>

MaterializeOptions == [includeSrc : BOOLEAN, minimal : BOOLEAN, overwrite : BOOLEAN]

Reverse(q) == [k \in 1..Len(q) |-> q[Len(q) + 1 - k]]

\* slip: in minimal mode only the skip list is consulted, pages/ and public/
\* content is treated as in normal mode
SkipsTemplate_noContentSkip(p, o) ==
  \/ StartsWith(p, <<"_build", Sep>>)
  \/ isSrcFile(p) /\ ~o.includeSrc
  \/ o.minimal /\ p \in MINIMAL_SKIP_FILES
  \/ ~isMinimalFile(p) /\ ~isSrcFile(p)
  \/ o.minimal /\ p \in DOMAIN MINIMAL_FILE_OVERRIDES

\* slip: in minimal mode the skip list and the override map are not consulted
SkipsTemplate_noOverrideSkip(p, o) ==
  \/ StartsWith(p, <<"_build", Sep>>)
  \/ isSrcFile(p) /\ ~o.includeSrc
  \/ /\ o.minimal
     /\ StartsWith(p, <<"pages", Sep>>) \/ StartsWith(p, <<"public", Sep>>)
     /\ p \notin MINIMAL_INFRASTRUCTURE_FILES
  \/ ~isMinimalFile(p) /\ ~isSrcFile(p)

\* the `continue`s of the main loop that come before the target is looked at
SkipsTemplate(p, o) ==
  \/ StartsWith(p, <<"_build", Sep>>)
  \/ isSrcFile(p) /\ ~o.includeSrc
  \/ o.minimal /\ p \in MINIMAL_SKIP_FILES
  \/ /\ o.minimal
     /\ StartsWith(p, <<"pages", Sep>>) \/ StartsWith(p, <<"public", Sep>>)
     /\ p \notin MINIMAL_INFRASTRUCTURE_FILES
  \/ ~isMinimalFile(p) /\ ~isSrcFile(p)
  \/ o.minimal /\ p \in DOMAIN MINIMAL_FILE_OVERRIDES

\* slip: the file is written whether it exists or not
WriteUnlessPresent_always(s, outputPath, key, source) ==
  LET target == TargetPath(outputPath)
  IN [s EXCEPT !.dirs = @ \cup {dirname(target)},
               !.files = Put(@, target, EmbeddedContent(key)),
               !.writes = Append(@, [path |-> outputPath, target |-> target,
                                     from |-> key, source |-> source]),
               !.created = Append(@, outputPath)]

\* mkdir of the parent; exists && !overwrite: skip; else writeFile and created.push
WriteUnlessPresent(s, outputPath, key, source) ==
  LET target == TargetPath(outputPath)
      made == [s EXCEPT !.dirs = @ \cup {dirname(target)}]
  IN IF target \in DOMAIN s.files /\ ~s.opts.overwrite
       THEN made
       ELSE [made EXCEPT !.files = Put(@, target, EmbeddedContent(key)),
                         !.writes = Append(@, [path |-> outputPath, target |-> target,
                                               from |-> key, source |-> source]),
                         !.created = Append(@, outputPath)]

\* files the author may already have in the target directory
PreExisting == {TplTemplatePageWrapper, TplGitignore, TplFavicon}

InitScaffold ==
  /\ InitPipeline
  /\ options = [ssg |-> "unset", static |-> "unset"]
  /\ InitContext
  /\ InitCalls
  /\ InitStepsIdle
  /\ InitEntryIdle
  /\ fs = {}
  /\ \E S \in SUBSET PreExisting, ord \in {TemplateSeq, Reverse(TemplateSeq)} :
       scaffold = [NoScaffold EXCEPT
                     !.files = [t \in { TargetPath(p) : p \in S } |-> ProjectContent],
                     !.order = ord]

\* the call is entered: mkdir(targetDir); in minimal mode mkdir(pages) and
\* created.push('pages/')
CallMaterializeProject(o) ==
  /\ scaffold.pc \in {"idle", "returned"}
  /\ scaffold.runs < MaxRuns
  /\ scaffold' =
       [scaffold EXCEPT
          !.pc = "loop",
          !.opts = o,
          !.k = 1,
          !.overrides = IF o.minimal THEN DOMAIN MINIMAL_FILE_OVERRIDES ELSE {},
          !.created = IF o.minimal THEN <<PagesDirEntry>> ELSE <<>>,
          !.writes = <<>>,
          !.dirs = @ \cup {targetDir}
                     \cup (IF o.minimal THEN {TargetPath(<<"pages">>)} ELSE {}),
          !.before = scaffold.files,
          !.runs = @ + 1,
          !.prev = IF scaffold.pc = "returned"
                     THEN [valid |-> TRUE, opts |-> scaffold.opts,
                           created |-> scaffold.created, writes |-> scaffold.writes]
                     ELSE NoPrevious]
  /\ UNCHANGED <<pipeVars, fs, ctxVars, callVars, entryVars, stepVars>>

\* one iteration of the loop over Object.entries(templates)
ProcessTemplate ==
  /\ scaffold.pc = "loop"
  /\ scaffold.k <= Len(scaffold.order)
  /\ LET p == scaffold.order[scaffold.k]
         next == [scaffold EXCEPT !.k = @ + 1]
     IN scaffold' = IF SkipsTemplate(p, scaffold.opts)
                      THEN next
                      ELSE WriteUnlessPresent(next, p, p, "default")
  /\ UNCHANGED <<pipeVars, fs, ctxVars, callVars, entryVars, stepVars>>

\* one iteration of the loop over Object.entries(MINIMAL_FILE_OVERRIDES)
ProcessOverride ==
  /\ scaffold.pc = "loop"
  /\ scaffold.k > Len(scaffold.order)
  /\ \E originalPath \in scaffold.overrides :
       LET overridePath == MINIMAL_FILE_OVERRIDES[originalPath]
           next == [scaffold EXCEPT !.overrides = @ \ {originalPath}]
       IN scaffold' = IF ~hasTemplate(overridePath)
                        THEN next
                        ELSE WriteUnlessPresent(next, originalPath, overridePath, "override")
  /\ UNCHANGED <<pipeVars, fs, ctxVars, callVars, entryVars, stepVars>>

\* return created
ReturnCreated ==
  /\ scaffold.pc = "loop"
  /\ scaffold.k > Len(scaffold.order)
  /\ scaffold.overrides = {}
  /\ scaffold' = [scaffold EXCEPT !.pc = "returned"]
  /\ UNCHANGED <<pipeVars, fs, ctxVars, callVars, entryVars, stepVars>>

NextScaffold ==
  \/ \E o \in MaterializeOptions : CallMaterializeProject(o)
  \/ ProcessTemplate
  \/ ProcessOverride
  \/ ReturnCreated

SpecScaffold == InitScaffold /\ [][NextScaffold]_vars


\* ------------------------------------------------------------------------
\* Properties of the project scaffold
\* ------------------------------------------------------------------------
InCall == scaffold.pc \in {"loop", "returned"}
Writes == { scaffold.writes[n] : n \in 1..Len(scaffold.writes) }
Created == { scaffold.created[n] : n \in 1..Len(scaffold.created) }

\* the file at relative path p is as it was when the call was entered
Untouched(p) ==
  LET t == TargetPath(p)
  IN IF t \in DOMAIN scaffold.before
       THEN t \in DOMAIN scaffold.files /\ scaffold.files[t] = scaffold.before[t]
       ELSE t \notin DOMAIN scaffold.files

\* C15: in minimal mode src/template/PageWrapper.jsx is written only with the
\* content of src/template/PageWrapper.minimal.jsx, never with the standard
\* content, and no file is created at PageWrapper.minimal.jsx or at the other
\* paths of the skip list (Header, Footer, ScratchBadge, Copyright)
C15_MinimalPageWrapper ==
  (InCall /\ scaffold.opts.minimal) =>
    /\ \A w \in Writes :
         /\ w.path = TplTemplatePageWrapper =>
              /\ w.from = TplTemplatePageWrapperMinimal
              /\ scaffold.files[w.target] = EmbeddedContent(TplTemplatePageWrapperMinimal)
         /\ w.path \notin MINIMAL_SKIP_FILES \ {TplTemplatePageWrapper}
    /\ \/ Untouched(TplTemplatePageWrapper)
       \/ scaffold.files[TargetPath(TplTemplatePageWrapper)]
            = EmbeddedContent(TplTemplatePageWrapperMinimal)
    /\ \A p \in {TplTemplatePageWrapperMinimal, TplHeader, TplFooter,
                 TplScratchBadge, TplCopyright} : Untouched(p)

\* reached: a minimal call has returned and PageWrapper.jsx holds the minimal variant
C15_Witness ==
  /\ scaffold.pc = "returned"
  /\ scaffold.opts.minimal
  /\ \E w \in Writes : w.path = TplTemplatePageWrapper
  /\ scaffold.files[TargetPath(TplTemplatePageWrapper)]
       = EmbeddedContent(TplTemplatePageWrapperMinimal)
  /\ TargetPath(TplTemplatePageWrapperMinimal) \notin DOMAIN scaffold.files

\* C16: in one call every relative path is written at most once and from one
\* source: from its minimal-mode override if the mode is minimal and the path
\* has one, else from the embedded file of the same path; with overwrite=false
\* a path present in the target when the call was entered is not written
C16_OneSourcePerPath ==
  InCall =>
    /\ \A a, b \in 1..Len(scaffold.writes) :
         scaffold.writes[a].path = scaffold.writes[b].path => a = b
    /\ \A w \in Writes :
         IF scaffold.opts.minimal /\ w.path \in DOMAIN MINIMAL_FILE_OVERRIDES
           THEN w.source = "override" /\ w.from = MINIMAL_FILE_OVERRIDES[w.path]
           ELSE w.source = "default" /\ w.from = w.path
    /\ ~scaffold.opts.overwrite =>
         \A w \in Writes : w.target \notin DOMAIN scaffold.before

\* reached: minimal mode with overwrite replaced an existing PageWrapper.jsx
\* through the override map
C16_Witness ==
  /\ scaffold.pc = "returned"
  /\ scaffold.opts.minimal
  /\ scaffold.opts.overwrite
  /\ TargetPath(TplTemplatePageWrapper) \in DOMAIN scaffold.before
  /\ \E w \in Writes : w.path = TplTemplatePageWrapper /\ w.source = "override"
  /\ Len(scaffold.writes) > 1

\* C17: with overwrite=false every file that was in the target when the call
\* was entered keeps its content, in normal and in minimal mode; a file that
\* existed is replaced only with overwrite=true, and then by embedded content
C17_ExistingFilesKept ==
  InCall =>
    /\ ~scaffold.opts.overwrite =>
         \A t \in DOMAIN scaffold.before :
           t \in DOMAIN scaffold.files /\ scaffold.files[t] = scaffold.before[t]
    /\ \A w \in Writes :
         /\ w.target \in DOMAIN scaffold.before => scaffold.opts.overwrite
         /\ scaffold.files[w.target] = EmbeddedContent(w.from)

\* reached: a minimal call without overwrite has returned, the author's
\* PageWrapper.jsx is still there and other files were written
C17_Witness ==
  /\ scaffold.pc = "returned"
  /\ scaffold.opts.minimal
  /\ ~scaffold.opts.overwrite
  /\ TargetPath(TplTemplatePageWrapper) \in DOMAIN scaffold.before
  /\ scaffold.before[TargetPath(TplTemplatePageWrapper)] = ProjectContent
  /\ scaffold.files[TargetPath(TplTemplatePageWrapper)] = ProjectContent
  /\ Len(scaffold.writes) > 0

\* C18 (as claimed): with includeSrc=false no path under src/ is written, for
\* every combination of minimal and overwrite
C18_NoSrcWrites ==
  (InCall /\ ~scaffold.opts.includeSrc) =>
    \A w \in Writes : ~isSrcFile(w.path)

\* C19 (as claimed): the returned list is exactly the set of relative paths of
\* the files written by the call, without duplicates, and a second call with the
\* same options and overwrite=false writes nothing and returns an empty list
C19_CreatedIsWritten ==
  scaffold.pc = "returned" =>
    /\ Created = { w.path : w \in Writes }
    /\ Len(scaffold.created) = Cardinality(Created)
    /\ (scaffold.prev.valid /\ scaffold.prev.opts = scaffold.opts
          /\ ~scaffold.opts.overwrite) =>
         /\ scaffold.writes = <<>>
         /\ scaffold.created = <<>>

\* C20: in minimal mode the pages directory is created, no file is written
\* under it, and the only file written under public/ is public/favicon.svg
C20_MinimalContent ==
  (InCall /\ scaffold.opts.minimal) =>
    /\ TargetPath(<<"pages">>) \in scaffold.dirs
    /\ \A w \in Writes :
         /\ ~IsUnder(TargetPath(<<"pages">>), w.target)
         /\ IsUnder(TargetPath(<<"public">>), w.target) => w.path = TplFavicon
    /\ \A t \in DOMAIN scaffold.files :
         (IsUnder(TargetPath(<<"pages">>), t) \/ IsUnder(TargetPath(<<"public">>), t)) =>
           \/ t \in DOMAIN scaffold.before
           \/ t = TargetPath(TplFavicon)

\* reached: a minimal call on an empty target has returned with the favicon
\* written and the pages directory made
C20_Witness ==
  /\ scaffold.pc = "returned"
  /\ scaffold.opts.minimal
  /\ scaffold.before = EmptyMap
  /\ TargetPath(<<"pages">>) \in scaffold.dirs
  /\ \E w \in Writes : w.path = TplFavicon
  /\ \A t \in DOMAIN scaffold.files : ~IsUnder(TargetPath(<<"pages">>), t)


\* ------------------------------------------------------------------------
\* The render step in detail (src/build/steps/05b-render-server.ts)
\* ------------------------------------------------------------------------
\* the document a compiled server module renders: createEntries() wrote the entry
\* points in the order of Object.entries(entries), a later write to a path replaced
\* the earlier one, and the bundler compiled what was on disk
ModuleSource(ents, serverPts, order, modulePath) ==
  LET writers == { k \in 1..Len(order) : ServerOutput(serverPts[order[k]]) = modulePath }
      last == CHOOSE k \in writers : \A j \in writers : j <= k
  IN ents[order[last]].absPath

\* serverModule.render(): the HTML of the document the module was generated from
RenderedHtml(sourceFile) == <<"html-of">> \o sourceFile

\* the pipeline at the loop head of the render step of a build with pre-render:
\* steps 01 to 05 have resolved and their outputs are stored
InitRender ==
  /\ InitCalls
  /\ InitScaffoldIdle
  /\ InitEntryIdle
  /\ thrown = Unset
  /\ bundle = NoBundle
  /\ css = NoCss
  /\ options = [ssg |-> "true", static |-> "unset"]
  /\ componentMap = Unset
  /\ componentConflicts = Unset
  /\ nextInst = 2
  /\ i = RenderServer
  /\ pc = "loop"
  /\ phase = BUILD_STEPS[Server].phase
  /\ timings = { StepName(k) : k \in 1..Server }
  /\ error = NoError
  /\ failedStep = "unset"
  /\ exec = [k \in StepIds |-> IF k <= Server THEN "resolved" ELSE "idle"]
  /\ startLog = [k \in 1..Server |-> k]
  /\ \E D \in SiteDocSets \ {{}} :
       \E m \in EntryMaps(PagesFiles(D)) :
         /\ entries = Val([inst |-> 1, map |-> m])
         /\ outputs = storeStepOutput(Server, StepData(Server),
                        storeStepOutput(Tailwind, StepData(Tailwind),
                          storeStepOutput(CreateEntries, StepData(CreateEntries), EmptyOutputs)))
         /\ results = [k \in StepIds |-> IF k \in {Tailwind, Server} THEN StepData(k) ELSE Unset]
         /\ LET st == StepFiles(Server,
                        StepFiles(Tailwind,
                          StepFiles(CreateEntries,
                                    [files |-> PagesFiles(D) \cup {PublicFile}, mp |-> ClearedPaths])))
            IN /\ fs = st.files
               /\ materializedPaths = st.mp
         /\ \E o \in Orders(DOMAIN m) :
              render = [NoRender EXCEPT
                          !.modules = [p \in { renderModulePath(n) : n \in DOMAIN m } |->
                                         ModuleSource(m, outputs.serverEntryPts.v, o, p)]]

\* executeStep(renderServerStep) is started; execute() runs to its await: every
\* closure of the map() has been called and waits for its import()
StartRender ==
  /\ pc = "loop" /\ i = RenderServer
  /\ shouldRun(i)
  /\ ~IsParallelPair(i)
  /\ phase' = BUILD_STEPS[i].phase
  /\ exec' = [exec EXCEPT ![i] = "running"]
  /\ startLog' = Append(startLog, i)
  /\ pc' = "seq"
  /\ render' = [render EXCEPT !.all = "pending",
                              !.stage = [n \in DOMAIN outputs.entries.v |-> "importing"],
                              !.content = EmptyMap]
  /\ UNCHANGED <<i, options, outputs, timings, error, failedStep, results, fs, ctxVars,
                 callVars, entryVars, scaffold, thrown, bundle, css>>

\* await import(modulePath) resolves in the closure of entry n
ImportResolves(n) ==
  /\ render.all # "idle"
  /\ n \in DOMAIN render.stage /\ render.stage[n] = "importing"
  /\ renderModulePath(n) \in fs
  /\ render' = [render EXCEPT !.stage[n] = "rendering"]
  /\ UNCHANGED <<pipeVars, fs, ctxVars, callVars, entryVars, scaffold, thrown, bundle, css>>

\* await serverModule.render() resolves: renderedContent.set(name, html)
RenderResolves(n) ==
  /\ render.all # "idle"
  /\ n \in DOMAIN render.stage /\ render.stage[n] = "rendering"
  /\ render' = [render EXCEPT
                  !.stage[n] = "done",
                  !.content = Put(@, n, RenderedHtml(render.modules[renderModulePath(n)]))]
  /\ UNCHANGED <<pipeVars, fs, ctxVars, callVars, entryVars, scaffold, thrown, bundle, css>>

\* the import or the render of entry n throws: its promise rejects, and Promise.all
\* rejects unless it has settled already
ClosureRejects(n) ==
  /\ render.all # "idle"
  /\ n \in DOMAIN render.stage /\ render.stage[n] \in {"importing", "rendering"}
  /\ render' = [render EXCEPT !.stage[n] = "failed",
                              !.all = IF @ = "pending" THEN "rejected" ELSE @]
  /\ UNCHANGED <<pipeVars, fs, ctxVars, callVars, entryVars, scaffold, thrown, bundle, css>>

\* Promise.all resolves, execute() returns { renderedContent }, the awaited
\* executeStep resolves: timing, storeStepOutput, next iteration
RenderStepResolves ==
  /\ pc = "seq" /\ i = RenderServer /\ exec[i] = "running"
  /\ render.all = "pending"
  /\ \A n \in DOMAIN render.stage : render.stage[n] = "done"
  /\ render' = [render EXCEPT !.all = "resolved"]
  /\ timings' = timings \cup {StepName(i)}
  /\ outputs' = storeStepOutput(i, Val([renderedContent |-> Val(render.content)]), outputs)
  /\ exec' = [exec EXCEPT ![i] = "resolved"]
  /\ i' = i + 1
  /\ pc' = "loop"
  /\ UNCHANGED <<phase, options, error, failedStep, results, startLog, fs, ctxVars,
                 callVars, entryVars, scaffold, thrown, bundle, css>>

\* Promise.all has rejected: execute() rejects, catch block of the sequential path
RenderStepRejects ==
  /\ pc = "seq" /\ i = RenderServer /\ exec[i] = "running"
  /\ render.all = "rejected"
  /\ \E e \in StepErrors(i) :
       /\ phase' = "failed"
       /\ error' = e
       /\ failedStep' = failedStepOf(i, i)
       /\ thrown' = Val(formatBuildError(e))
  /\ exec' = [exec EXCEPT ![i] = "rejected"]
  /\ pc' = "rejected"
  /\ UNCHANGED <<i, options, outputs, timings, results, startLog, fs, ctxVars,
                 callVars, entryVars, scaffold, subVars>>

RenderNames == EntryNames(PagesFiles(SiteDocUniverse))

NextRender ==
  \/ StartRender
  \/ \E n \in RenderNames : ImportResolves(n)
  \/ \E n \in RenderNames : RenderResolves(n)
  \/ \E n \in RenderNames : ClosureRejects(n)
  \/ RenderStepResolves
  \/ RenderStepRejects

SpecRender == InitRender /\ [][NextRender]_vars

\* C25 (as claimed): when the render step succeeds, renderedContent has exactly one
\* entry per discovered Entry, keyed by entry name and holding that document's own
\* rendered HTML, whatever the order in which the renders complete; if the import
\* or render of any document fails, the step fails and the pipeline ends Failed.
C25_RenderedContent ==
  /\ exec[RenderServer] = "resolved" =>
       /\ outputs.renderedContent \notin {Unset, Null}
       /\ DOMAIN outputs.renderedContent.v = DOMAIN outputs.entries.v
       /\ \A n \in DOMAIN outputs.entries.v :
            outputs.renderedContent.v[n] = RenderedHtml(outputs.entries.v[n].absPath)
  /\ (\E n \in DOMAIN render.stage : render.stage[n] = "failed") =>
       /\ exec[RenderServer] \in {"running", "rejected"}
       /\ outputs.renderedContent = Unset
       /\ exec[RenderServer] = "rejected" => phase = "failed"


\* ------------------------------------------------------------------------
\* buildJsOutputMap (src/build/steps/06-client-build.ts)
\* ------------------------------------------------------------------------
EndsWith(p, suffix) ==
  Len(p) >= Len(suffix) /\ SubSeq(p, Len(p) - Len(suffix) + 1, Len(p)) = suffix

\* String.replace(/<suffix>$/, '')
DropSuffix(p, suffix) ==
  IF EndsWith(p, suffix) THEN SubSeq(p, 1, Len(p) - Len(suffix)) ELSE p

\* the name pieces that are a hyphen followed by [a-z0-9]+
HashPieces == {HashSuffix, "-0ther"}

\* basename.replace(/-[a-z0-9]+$/, '')
StripHash(b) ==
  IF b # <<>> /\ b[Len(b)] \in HashPieces THEN SubSeq(b, 1, Len(b) - 1) ELSE b

\* the base path of a client entry point: path.relative(clientSrcDir, tsxPath)
\* without a final .tsx
EntryBasePath(tsxPath) == DropSuffix(relative(clientSrcDir, tsxPath), <<Dot, "tsx">>)

\* the base path reconstructed from a bundler output
OutputBasePath(outputPath) ==
  LET relativePath == relative(clientCompiledDir, outputPath)
      dir == dirname(relativePath)
      nameWithoutHash == StripHash(DropSuffix(basename(relativePath), <<Dot, "js">>))
  IN IF dir = <<Dot>> THEN nameWithoutHash ELSE dir \o <<Sep>> \o nameWithoutHash

\* output.kind === 'entry-point' && output.path.endsWith('.js')
IsEntryOutput(output) ==
  output.kind = "entry-point" /\ EndsWith(output.path, <<Dot, "js">>)

\* outputs of the bundler besides the entry points' scripts
ExtraOutputs ==
  { [path |-> resolve(clientCompiledDir, <<"chunk", HashSuffix, Dot, "js">>), kind |-> "chunk"],
    [path |-> resolve(clientCompiledDir, <<"index", "-0ther", Dot, "js">>), kind |-> "chunk"],
    [path |-> resolve(clientCompiledDir, <<"index", HashSuffix, Dot, "css">>),
     kind |-> "entry-point"] }

SeqOf(S) == CHOOSE q \in Orders(S) : TRUE

\* the arguments of a call from clientBuildStep.execute(): the entry points of the
\* entry-generation step in the order of Object.entries, and result.outputs
InitBundle ==
  /\ InitPipeline
  /\ options = [ssg |-> "unset", static |-> "unset"]
  /\ InitContext
  /\ InitCalls
  /\ InitScaffoldIdle
  /\ InitEntryIdle
  /\ thrown = Unset
  /\ render = NoRender
  /\ css = NoCss
  /\ fs = {}
  /\ \E D \in SiteDocSets \ {{}} :
       \E m \in EntryMaps(PagesFiles(D)) :
         \E o \in Orders(DOMAIN m), X \in SUBSET ExtraOutputs, rev \in BOOLEAN :
           LET pts == createEntries(m, <<Dot, "tsx">>, clientSrcDir)
               outs == SeqOf({ [path |-> ClientOutput(pts[n]), kind |-> "entry-point"] :
                                 n \in DOMAIN m } \cup X)
           IN bundle = [NoBundle EXCEPT
                          !.entryPts = [k \in 1..Len(o) |-> [name |-> o[k], path |-> pts[o[k]]]],
                          !.outputs = IF rev THEN Reverse(outs) ELSE outs]

\* buildJsOutputMap(ctx, clientEntryPts, result) is entered
CallBuildJsOutputMap ==
  /\ bundle.pc = "idle"
  /\ bundle' = [bundle EXCEPT !.pc = "reverse", !.k = 1]
  /\ UNCHANGED <<pipeVars, fs, ctxVars, callVars, entryVars, scaffold, thrown, render, css>>

\* first loop: basePathToEntry[basePath] = entryName
ReverseMapEntry ==
  /\ bundle.pc = "reverse" /\ bundle.k <= Len(bundle.entryPts)
  /\ LET e == bundle.entryPts[bundle.k]
     IN bundle' = [bundle EXCEPT
                     !.basePathToEntry = Put(@, EntryBasePath(e.path), e.name),
                     !.k = @ + 1]
  /\ UNCHANGED <<pipeVars, fs, ctxVars, callVars, entryVars, scaffold, thrown, render, css>>

\* the first loop ends, the loop over result.outputs begins
StartOutputs ==
  /\ bundle.pc = "reverse" /\ bundle.k > Len(bundle.entryPts)
  /\ bundle' = [bundle EXCEPT !.pc = "outputs", !.k = 1]
  /\ UNCHANGED <<pipeVars, fs, ctxVars, callVars, entryVars, scaffold, thrown, render, css>>

\* second loop: one output of the bundler
ProcessOutput ==
  /\ bundle.pc = "outputs" /\ bundle.k <= Len(bundle.outputs)
  /\ LET output == bundle.outputs[bundle.k]
         basePath == OutputBasePath(output.path)
     IN bundle' = [bundle EXCEPT
                     !.jsOutputMap =
                        IF IsEntryOutput(output) /\ basePath \in DOMAIN bundle.basePathToEntry
                          THEN Put(@, bundle.basePathToEntry[basePath], output.path)
                          ELSE @,
                     !.k = @ + 1]
  /\ UNCHANGED <<pipeVars, fs, ctxVars, callVars, entryVars, scaffold, thrown, render, css>>

\* return jsOutputMap
ReturnJsOutputMap ==
  /\ bundle.pc = "outputs" /\ bundle.k > Len(bundle.outputs)
  /\ bundle' = [bundle EXCEPT !.pc = "returned"]
  /\ UNCHANGED <<pipeVars, fs, ctxVars, callVars, entryVars, scaffold, thrown, render, css>>

NextBundle ==
  \/ CallBuildJsOutputMap
  \/ ReverseMapEntry
  \/ StartOutputs
  \/ ProcessOutput
  \/ ReturnJsOutputMap

SpecBundle == InitBundle /\ [][NextBundle]_vars

BundleOutputs == { bundle.outputs[k] : k \in 1..Len(bundle.outputs) }

\* the entry-point outputs named <entry base path>-<hash>.js under clientCompiledDir
ScriptsOf(tsxPath) ==
  { o \in BundleOutputs :
      /\ o.kind = "entry-point"
      /\ \E h \in HashPieces :
           o.path = resolve(clientCompiledDir, EntryBasePath(tsxPath) \o <<h, Dot, "js">>) }

\* C26 (as claimed): for every client entry whose entry-point output is named
\* <entry base path>-<hash>.js under the client compiled directory, buildJsOutputMap
\* maps the entry's name to exactly that output path; outputs that are not entry
\* points or do not end in .js never appear in the map, and no entry name is mapped
\* to another entry's output.
C26_JsOutputMap ==
  bundle.pc = "returned" =>
    /\ \A k \in 1..Len(bundle.entryPts) :
         \A o \in ScriptsOf(bundle.entryPts[k].path) :
           /\ bundle.entryPts[k].name \in DOMAIN bundle.jsOutputMap
           /\ bundle.jsOutputMap[bundle.entryPts[k].name] = o.path
    /\ \A n \in DOMAIN bundle.jsOutputMap :
         /\ \E o \in BundleOutputs :
              o.path = bundle.jsOutputMap[n] /\ o.kind = "entry-point"
                                            /\ EndsWith(o.path, <<Dot, "js">>)
         /\ \A k \in 1..Len(bundle.entryPts) :
              (\E o \in ScriptsOf(bundle.entryPts[k].path) : o.path = bundle.jsOutputMap[n])
                => bundle.entryPts[k].name = n


\* ------------------------------------------------------------------------
\* The stylesheet of the style-compile step (src/build/steps/04-tailwind-css.ts)
\* ------------------------------------------------------------------------
\* a stylesheet is a sequence of pieces of text
ImportTailwind == "@import \"tailwindcss\""
ImportTailwindSingleQuoted == "@import 'tailwindcss'"
Semicolon == ";"
Newline == "\n"
CssPieces == {ImportTailwind, ImportTailwindSingleQuoted, Semicolon, " source(none)", "body{}"}

\* path.resolve(ctx.embeddedTemplatesDir, 'src')
embeddedSrcDir == resolve(embeddedTemplatesDir, <<"src">>)

\* `@source "${embeddedSrcDir}";\n`
sourceDirective == <<"@source \"">> \o embeddedSrcDir \o <<"\"", Semicolon, Newline>>

\* String.includes(pattern)
Includes(text, pattern) ==
  \E k \in 1..(Len(text) - Len(pattern) + 1) : SubSeq(text, k, k + Len(pattern) - 1) = pattern

\* String.replace(pattern, replacement) with a string pattern: the first occurrence
ReplaceFirst(text, pattern, replacement) ==
  IF ~Includes(text, pattern) THEN text
  ELSE LET k == CHOOSE j \in 1..(Len(text) - Len(pattern) + 1) :
                  /\ SubSeq(text, j, j + Len(pattern) - 1) = pattern
                  /\ \A h \in 1..(j - 1) : SubSeq(text, h, h + Len(pattern) - 1) # pattern
       IN SubSeq(text, 1, k - 1) \o replacement \o SubSeq(text, k + Len(pattern), Len(text))

\* insert after @import "tailwindcss" or at the beginning
AddSourceDirective(cssContent) ==
  IF Includes(cssContent, <<ImportTailwind>>)
    THEN ReplaceFirst(cssContent, <<ImportTailwind, Semicolon>>,
                      <<ImportTailwind, Semicolon, Newline>> \o sourceDirective)
    ELSE sourceDirective \o cssContent

RECURSIVE SeqsUpTo(_, _)
SeqsUpTo(S, n) ==
  IF n = 0 THEN {<<>>}
  ELSE LET shorter == SeqsUpTo(S, n - 1)
       IN shorter \cup { Append(q, x) : q \in shorter, x \in S }

CacheInputCss == resolve(tempDir, <<"tailwind-input", Dot, "css">>)

\* the resolved entry stylesheet has any content of up to MaxCssTokens pieces
InitCss ==
  /\ InitPipeline
  /\ options = [ssg |-> "unset", static |-> "unset"]
  /\ InitContext
  /\ InitCalls
  /\ InitScaffoldIdle
  /\ InitEntryIdle
  /\ thrown = Unset
  /\ render = NoRender
  /\ bundle = NoBundle
  /\ fs = {}
  /\ \E text \in SeqsUpTo(CssPieces, MaxCssTokens) : css = [NoCss EXCEPT !.source = text]

\* cssContent = await fs.readFile(inputCss, 'utf-8')
ReadInputCss ==
  /\ css.pc = "idle"
  /\ css' = [css EXCEPT !.pc = "read", !.cssContent = css.source]
  /\ UNCHANGED <<pipeVars, fs, ctxVars, callVars, entryVars, scaffold, thrown, render, bundle>>

\* the directive is added and the result is written to tailwind-input.css, the
\* file given to the style compiler with -i
WriteCacheInputCss ==
  /\ css.pc = "read"
  /\ css' = [css EXCEPT !.pc = "written",
                        !.cssContent = AddSourceDirective(css.cssContent),
                        !.written = Val(AddSourceDirective(css.cssContent))]
  /\ fs' = fs \cup {CacheInputCss}
  /\ UNCHANGED <<pipeVars, ctxVars, callVars, entryVars, scaffold, thrown, render, bundle>>

NextCss == ReadInputCss \/ WriteCacheInputCss

SpecCss == InitCss /\ [][NextCss]_vars

\* C27 (as claimed): the stylesheet handed to the style compiler always contains the
\* @source directive pointing at the embedded-defaults src directory, whatever the
\* content of the resolved entry stylesheet (no tailwindcss import, or an
\* @import "tailwindcss" statement in any form).
C27_SourceDirective ==
  css.written # Unset =>
    /\ CacheInputCss \in fs
    /\ Includes(css.written.v, sourceDirective)


\* ------------------------------------------------------------------------
\* Properties of what runBuildPipeline hands back to its caller
\* ------------------------------------------------------------------------
Tokens(q) == { q[n] : n \in 1..Len(q) }

\* C21 (as claimed): the error that runBuildPipeline throws names the failing step
\* (step name plus underlying message), so the same underlying error thrown by two
\* different steps gives two different messages.
C21_ThrownNamesStep ==
  thrown # Unset =>
    /\ error.msg \in Tokens(thrown.v)
    /\ error.origin \in Tokens(thrown.v)

\* the steps whose execute() was invoked and has resolved
Executed == { k \in StepIds : exec[k] = "resolved" }

\* C22: runBuildPipeline returns only with phase Completed, reached exactly when the
\* execute of every step that was not skipped has resolved; state.timings then has
\* an entry for exactly the executed steps, and error and failedStep are unset.
C22_ReturnsCompleted ==
  /\ (pc = "returned") <=> (phase = "completed")
  /\ pc = "returned" =>
       /\ \A k \in StepIds : exec[k] \in {"idle", "resolved"}
       /\ \A k \in StepIds : exec[k] = "idle" => Starts(k) = 0
       /\ timings = { StepName(k) : k \in Executed }
       /\ error = NoError
       /\ failedStep = "unset"
       /\ thrown = Unset

\* C22 witness: a build has returned in which the two server steps were skipped and
\* every other step was executed
C22_Witness ==
  /\ pc = "returned"
  /\ phase = "completed"
  /\ exec[Server] = "idle" /\ exec[RenderServer] = "idle"
  /\ Cardinality(Executed) = NSteps - 2

\* the location of an artifact below its base directory, without the extension
Location(base, p) == StripExt(relative(base, p))

\* C23: when the entry-generation step has succeeded, clientEntryPts has exactly one
\* entry point per discovered Entry at getArtifactPath('.tsx', clientSrcDir);
\* serverEntryPts has one per Entry at getArtifactPath('.jsx', serverSrcDir) if
\* pre-render is enabled and is null otherwise; the render step imports
\* getArtifactPath('.js', serverCompiledDir), a module the server bundle has written,
\* at the same location below its base directory as the client and server modules.
C23_ArtifactLocations ==
  outputs.entries # Unset =>
    LET ents == outputs.entries.v
        client == outputs.clientEntryPts
        server == outputs.serverEntryPts
    IN /\ client \notin {Unset, Null}
       /\ DOMAIN client.v = DOMAIN ents
       /\ \A n \in DOMAIN ents :
            /\ client.v[n] = getArtifactPath(ents[n].name, <<Dot, "tsx">>, clientSrcDir)
            /\ client.v[n] \in fs
       /\ IF options.ssg = "true"
            THEN /\ server \notin {Unset, Null}
                 /\ DOMAIN server.v = DOMAIN ents
                 /\ \A n \in DOMAIN ents :
                      /\ server.v[n] = getArtifactPath(ents[n].name, <<Dot, "jsx">>, serverSrcDir)
                      /\ server.v[n] \in fs
                      /\ Location(serverSrcDir, server.v[n]) = Location(clientSrcDir, client.v[n])
                      /\ Location(serverCompiledDir, renderModulePath(n))
                           = Location(clientSrcDir, client.v[n])
                      /\ exec[RenderServer] # "idle" => renderModulePath(n) \in fs
            ELSE server = Null

\* C23 witness: the render step is running on two documents, one of them an index
\* document of a subdirectory
C23_Witness ==
  /\ exec[RenderServer] = "running"
  /\ Cardinality(DOMAIN outputs.entries.v) = 2
  /\ <<"docs", Sep, "index">> \in DOMAIN outputs.entries.v

OutputFields == DOMAIN outputs

\* the step whose result a field of outputs comes from
WriterOf(f) ==
  CASE f \in {"entries", "clientEntryPts", "serverEntryPts"} -> CreateEntries
    [] f = "cssFilename" -> Tailwind
    [] f = "serverBuildResult" -> Server
    [] f = "renderedContent" -> RenderServer
    [] f \in {"clientBuildResult", "jsOutputMap"} -> ClientBuild

\* C24: every field of outputs is assigned from exactly one step's result (entries
\* and both entry-point maps from entry generation, cssFilename from style compile,
\* serverBuildResult from server bundle, renderedContent from render,
\* clientBuildResult and jsOutputMap from client bundle), at most once per build,
\* and a step that reads a field starts only after the field has been stored.
C24_SingleWriter ==
  /\ [](\A k \in StepIds :
          /\ exec[k] # "idle" => \A f \in ReadsOutputs(k) : outputs[f] # Unset
          /\ Starts(k) <= 1)
  /\ [](\A f \in OutputFields :
          outputs[f] # Unset => exec[WriterOf(f)] = "resolved")
  /\ [][ \A f \in OutputFields :
           outputs'[f] # outputs[f] =>
             /\ outputs[f] = Unset
             /\ exec'[WriterOf(f)] = "resolved"
             /\ StepName(WriterOf(f)) \in timings' ]_vars

\* C24 witness: a build with pre-render has returned and every field has been stored
C24_Witness ==
  /\ pc = "returned"
  /\ \A f \in OutputFields : outputs[f] \notin {Unset, Null}

\* C28 (as claimed): once state.phase is Failed, no field of the pipeline state
\* (phase, outputs, timings, error, failedStep) changes again; when one step of the
\* style-compile/server-bundle pair fails, the still-running sibling does not modify
\* the state afterwards.
C28_FailedStateFrozen ==
  [][ phase = "failed" =>
        /\ phase' = phase
        /\ outputs' = outputs
        /\ timings' = timings
        /\ error' = error
        /\ failedStep' = failedStep ]_vars

\* C29 (as claimed): distinct entry names yield distinct artifact paths for the same
\* extension and base directory, so no two documents of one build are assigned the
\* same client module, server module or HTML output file.
C29_DistinctArtifacts ==
  outputs.entries # Unset =>
    \A a, b \in DOMAIN outputs.entries.v :
      a # b =>
        /\ outputs.clientEntryPts.v[a] # outputs.clientEntryPts.v[b]
        /\ outputs.serverEntryPts # Null =>
             outputs.serverEntryPts.v[a] # outputs.serverEntryPts.v[b]
        /\ getArtifactPath(outputs.entries.v[a].name, <<Dot, "html">>, buildDir)
             # getArtifactPath(outputs.entries.v[b].name, <<Dot, "html">>, buildDir)

\* C30 (as claimed): the memoization of materializeEmbeddedFile also holds for
\* overlapping calls: when two calls for one template id are in flight at the same
\* time on one BuildContext, at most one filesystem write is performed for that id
\* (counted since the last clearCaches()).
C30_OneWriteWhenOverlapping ==
  \A t \in TemplateIds : hist.tpl[t].overlap => hist.tpl[t].writes <= 1


============================================================================
